---- MODULE Spec2Model ----
(***************************************************************************)
(* huak, src/huak/ops.rs: the commands that reconcile the project metadata *)
(* file (pyproject.toml) with the packages of the project's virtual        *)
(* environment.  Each command is one action; a command runs to completion  *)
(* (ops.rs is single-threaded and synchronous), and the step at which it   *)
(* fails, if any, is an input of the action.                               *)
(*                                                                         *)
(* A requirement string is a tuple of tokens: <<"ruff">> is "ruff",        *)
(* <<"ruff", "==", 2>> is "ruff==2" and <<"ruff", ">=", 1>> is "ruff>=1";  *)
(* <<"==", 1>> is "==1", which names no package and does not parse.        *)
(***************************************************************************)
EXTENDS Integers, Sequences, FiniteSets, TLC

\* Versions an index offers for a package are 1..MaxVersion.
MaxVersion == 2
\* The longest list of requirement strings a caller passes to a command.
MaxBatch == 2

Versions == 1..MaxVersion

\* Package names as callers type them, and the helper tools of ops.rs.
RawNames == {"Click", "ruff"}
GroupNames == {"dev"}

\* Requirement.version_or_url of a requirement with no constraint.
None == <<>>


---------------------------------------------------------------------------
(* dependency.rs / package.rs, as ops.rs uses them *)

\* The normalized name of a requirement: case folded.
Normalize(raw) ==
    CASE raw = "Click" -> "click"
      [] OTHER -> raw

UserNames == {Normalize(r) : r \in RawNames}

\* The helper tools that build, format, lint, publish and test install.
ToolNames == {"build", "black", "ruff", "mypy", "twine", "pytest"}

Names == UserNames \cup ToolNames

\* The order in which the environment lists its packages (pip: by name).
NameSeq == <<"black", "build", "click", "mypy", "pytest", "ruff", "twine">>

\* Dependency::from_str
FromStr(s) ==
    [name |-> Normalize(s[1]),
     version_or_url |-> IF Len(s) = 1 THEN None ELSE <<s[2], s[3]>>]

\* Dependency::from_str is Ok: the string starts with a package name.
Parses(s) == s[1] \in RawNames \cup ToolNames

\* dependency_iter: the requirement strings as Dependency values.  Its
\* items are Dependency, not Result: a string that does not parse yields
\* no item.
dependency_iter(strings) ==
    LET parsed == SelectSeq(strings, Parses)
    IN  [i \in 1..Len(parsed) |-> FromStr(parsed[i])]

\* Package::to_string: "name==version"
PkgToString(pkg) == <<pkg.name, "==", pkg.version>>

---------------------------------------------------------------------------
(* metadata.rs: the document of a pyproject.toml.  A document is a record  *)
(* [dependencies: the required list, optional: group name -> list].        *)

Range(seq) == {seq[i] : i \in 1..Len(seq)}

NamesOf(seq) == {seq[i].name : i \in 1..Len(seq)}

\* Metadata::contains_dependency: some form of the dependency is in the
\* required list (requirements are the same dependency iff their
\* normalized names match).
contains_dependency(m, dep) == dep.name \in NamesOf(m.dependencies)

\* Metadata::contains_optional_dependency
contains_optional_dependency(m, dep, group) ==
    /\ group \in DOMAIN m.optional
    /\ dep.name \in NamesOf(m.optional[group])

\* Metadata::contains_dependency_any: required list or any group.
contains_dependency_any(m, dep) ==
    \/ contains_dependency(m, dep)
    \/ \E g \in DOMAIN m.optional : dep.name \in NamesOf(m.optional[g])

\* Metadata::add_dependency: appended unless exactly this requirement is
\* already there.
add_dependency(m, dep) ==
    IF dep \in Range(m.dependencies) THEN m
    ELSE [m EXCEPT !.dependencies = Append(@, dep)]

\* Metadata::add_optional_dependency: the group is created when missing.
add_optional_dependency(m, dep, group) ==
    LET old == IF group \in DOMAIN m.optional THEN m.optional[group] ELSE <<>>
        new == IF dep \in Range(old) THEN old ELSE Append(old, dep)
    IN  [m EXCEPT !.optional =
            [g \in DOMAIN m.optional \cup {group} |->
                IF g = group THEN new ELSE m.optional[g]]]

\* Metadata::remove_dependency: every entry of that name.
remove_dependency(m, dep) ==
    [m EXCEPT !.dependencies = SelectSeq(@, LAMBDA d : d.name # dep.name)]

\* Metadata::remove_optional_dependency: a missing group stays missing.
remove_optional_dependency(m, dep, group) ==
    IF group \notin DOMAIN m.optional THEN m
    ELSE [m EXCEPT !.optional[group] =
            SelectSeq(@, LAMBDA d : d.name # dep.name)]

---------------------------------------------------------------------------
(* python_environment.rs: the packages of an environment are a function    *)
(* from package name to the installed version, 0 for a package that is not *)
(* installed.  The project's environment is a record [exists, installed].  *)

EmptyEnv == [n \in Names |-> 0]

\* Workspace::current_python_environment finds no environment.
NoEnv == [exists |-> FALSE, installed |-> EmptyEnv]

\* PythonEnvironment::installed_packages, in the installer's listing order.
installed_packages(env) ==
    SelectSeq([i \in 1..Len(NameSeq) |->
                  [name |-> NameSeq[i], version |-> env[NameSeq[i]]]],
              LAMBDA pkg : pkg.version # 0)

\* PythonEnvironment::contains_module
contains_module(env, name) == env[name] # 0

\* The versions a batch pins a package to.  A lower bound of the first
\* version ("pkg>=1") is met by every version and pins nothing.
Pins(deps, n) ==
    {deps[i].version_or_url[2] : i \in {j \in 1..Len(deps) :
        /\ deps[j].name = n
        /\ deps[j].version_or_url # None
        /\ deps[j].version_or_url[1] = "=="}}

\* A batch the installer's resolver rejects: two pins of one package.
Conflict(deps) == \E n \in Names : Cardinality(Pins(deps, n)) > 1

\* The index's answers a run of the installer can depend on: one version
\* for every package of `names`.
PickSet(names) ==
    {[n \in Names |-> IF n \in names THEN q[n] ELSE 1] :
        q \in [names -> Versions]}

\* PythonEnvironment::install_packages, exit status 0: one installer run
\* over the whole batch.  A pinned package gets its pin, an installed one
\* is kept, a new one gets the version the index offers.
InstallInto(env, deps, pick) ==
    [n \in Names |->
        IF n \notin NamesOf(deps) THEN env[n]
        ELSE IF Pins(deps, n) # {} THEN CHOOSE v \in Pins(deps, n) : TRUE
        ELSE IF env[n] # 0 THEN env[n]
        ELSE pick[n]]

\* PythonEnvironment::update_packages (install --upgrade), exit status 0.
UpdateInto(env, deps, pick) ==
    [n \in Names |->
        IF n \notin NamesOf(deps) THEN env[n]
        ELSE IF Pins(deps, n) # {} THEN CHOOSE v \in Pins(deps, n) : TRUE
        ELSE IF pick[n] > env[n] THEN pick[n]
        ELSE env[n]]

\* PythonEnvironment::uninstall_packages, exit status 0.
UninstallFrom(env, deps) ==
    [n \in Names |-> IF n \in NamesOf(deps) THEN 0 ELSE env[n]]

\* What a failed installer run can leave behind: the environment as it
\* was, or with a proper prefix of the batch applied.
Applied(kind, env, deps, pick) ==
    IF kind = "install" THEN InstallInto(env, deps, pick)
    ELSE IF kind = "update" THEN UpdateInto(env, deps, pick)
    ELSE UninstallFrom(env, deps)

PartialRuns(kind, env, deps, pick) ==
    {Applied(kind, env, SubSeq(deps, 1, k), pick) : k \in 0..(Len(deps) - 1)}
        \cup {env}

\* Workspace::resolve_python_environment: the environment found, else a
\* new, empty one.
resolve_python_environment(v) == [exists |-> TRUE, installed |-> v.installed]

---------------------------------------------------------------------------
(* ops.rs *)

VARIABLES
    file,     \* the metadata file on disk, as the document it holds
    venv,     \* the project's environment
    op,       \* the command whose outcome is recorded below, or "none"
    args,     \* its arguments
    result,   \* "Ok", or the step at which it returned an error
    before,   \* the file when it started
    envBefore, \* the environment when it started
    live,     \* its in-memory document when it returned
    writes,   \* how many times it called write_file
    calls,    \* the installer runs it made, in order
    lookup,   \* how it looked for the environment, and what it got
    ran,      \* the commands run so far in the session
    tree,     \* the other files of the workspace: path -> what is there
    treeBefore, \* those files when the command started
    environ,  \* the environment variables of the command's own process
    environBefore \* those variables when the command started

vars ==
    <<file, venv, op, args, result, before, envBefore, live, writes, calls,
      lookup, ran, tree, treeBefore, environ, environBefore>>

\* A command sets no environment variable of its own process.
KeepEnviron == environ' = environ /\ environBefore' = environ

\* A command that touches no file but the metadata file and the
\* environment.
KeepTree == tree' = tree /\ treeBefore' = tree

\* A process of which the environment variables do not matter.
NoEnviron == <<>>

\* A workspace of which only the metadata file and the environment matter.
NoTree == <<>>

\* A command returns: what it leaves on disk, in the environment, and what
\* it did on the way.
Return(name, arguments, res, newFile, newEnv, metadata, nWrites, runs, how) ==
    /\ op' = name
    /\ args' = arguments
    /\ result' = res
    /\ before' = file
    /\ envBefore' = venv
    /\ file' = newFile
    /\ venv' = newEnv
    /\ live' = metadata
    /\ writes' = nWrites
    /\ calls' = runs
    /\ lookup' = how
    /\ ran' = ran + 1
    /\ KeepTree
    /\ KeepEnviron

\* Requirement strings a caller can pass, and the lists of them.
InputStrings ==
    {<<r>> : r \in RawNames} \cup {<<r, "==", v>> : r \in RawNames, v \in Versions}

Batches == UNION {[1..n -> InputStrings] : n \in 1..MaxBatch}

\* The same, with requirements that give a lower bound.
RangeStrings == InputStrings \cup {<<r, ">=", 1>> : r \in RawNames}

RangeBatches == UNION {[1..n -> RangeStrings] : n \in 1..MaxBatch}

\* The same, with a string that is no requirement.
Malformed == <<"==", 1>>

ParseBatches == UNION {[1..n -> InputStrings \cup {Malformed}] : n \in 1..MaxBatch}

\* One run of the environment's installer over a batch, and its exit.
Run(kind, deps, ok) == [kind |-> kind, pkgs |-> deps, ok |-> ok]

\* The environment was not looked for.
NoLookup == <<>>

\* Workspace::resolve_python_environment, as a command sees it.
Resolve(ok) == <<"resolve", IF ok THEN "Ok" ELSE "Err">>

\* Workspace::current_python_environment, as a command sees it: the
\* environment, PythonEnvironmentNotFound, or another error.
Current(v, fail) ==
    <<"current",
      IF fail = "lookup" THEN "Err"
      ELSE IF v.exists THEN "Ok"
      ELSE "PythonEnvironmentNotFound">>

\* The packages of a batch whose version the index decides on install.
Unresolved(env, deps) ==
    {n \in NamesOf(deps) : Pins(deps, n) = {} /\ env[n] = 0}

\* A gate that lets every command write.
NeedsWrite_Always(package, metadata) == TRUE

\* `if package.metadata() != metadata.metadata()`: the gate of write_file.
NeedsWrite(package, metadata) == package # metadata

\* The list a command adds to: <<>> is the required list, <<g>> group g.
ContainsIn(m, dep, target) ==
    IF target = <<>> THEN contains_dependency(m, dep)
    ELSE contains_optional_dependency(m, dep, target[1])

\* An add-optional that puts the requirement in the required list.
AddTo_RequiredOnly(m, dep, target) == add_dependency(m, dep)

AddTo(m, dep, target) ==
    IF target = <<>> THEN add_dependency(m, dep)
    ELSE add_optional_dependency(m, dep, target[1])

\* An add that does not filter its input against the document.
AddCandidates_Unfiltered(metadata, dependencies, target) ==
    dependency_iter(dependencies)

\* An add that skips a request only when the list holds exactly that
\* requirement, constraint included.
AddCandidates_ExactMatch(metadata, dependencies, target) ==
    SelectSeq(dependency_iter(dependencies),
              LAMBDA dep :
                  IF target = <<>> THEN dep \notin Range(metadata.dependencies)
                  ELSE \/ target[1] \notin DOMAIN metadata.optional
                       \/ dep \notin Range(metadata.optional[target[1]]))

\* ops.rs 126-134 and 178-186: the dependencies that need to be added.
AddCandidates(metadata, dependencies, target) ==
    SelectSeq(dependency_iter(dependencies),
              LAMBDA dep : ~ContainsIn(metadata, dep, target))

\* An add that never looks up the installed version.
AddInstalled_Skipped(m, pkgs, deps, target) == m

\* An add that pins every package of the batch to the installed version,
\* whether the request gave a constraint or not.
RECURSIVE AddInstalled_PinsAll(_, _, _, _)
AddInstalled_PinsAll(m, pkgs, deps, target) ==
    IF pkgs = <<>> THEN m
    ELSE LET pkg == Head(pkgs)
         IN  AddInstalled_PinsAll(
                 IF pkg.name \in NamesOf(deps)
                 THEN AddTo(m, FromStr(PkgToString(pkg)), target)
                 ELSE m,
                 Tail(pkgs), deps, target)

\* ops.rs 143-152 and 195-204: a pin for every installed package that a
\* version-less dependency of the batch names.
RECURSIVE AddInstalled(_, _, _, _)
AddInstalled(m, pkgs, deps, target) ==
    IF pkgs = <<>> THEN m
    ELSE LET pkg == Head(pkgs)
             wanted == \E i \in 1..Len(deps) :
                          /\ pkg.name = deps[i].name
                          /\ deps[i].version_or_url = None
         IN  AddInstalled(IF wanted THEN AddTo(m, FromStr(PkgToString(pkg)), target)
                          ELSE m,
                          Tail(pkgs), deps, target)

\* An add that does not ask whether the name is already in the list.
RECURSIVE AddAsIs_Unchecked(_, _, _)
AddAsIs_Unchecked(m, deps, target) ==
    IF deps = <<>> THEN m
    ELSE AddAsIs_Unchecked(AddTo(m, Head(deps), target), Tail(deps), target)

\* An add that drops the requirements the caller constrained.
AddAsIs_Dropped(m, deps, target) == m

\* ops.rs 154-159 and 206-214: whatever hasn't been added, add as-is.
RECURSIVE AddAsIs(_, _, _)
AddAsIs(m, deps, target) ==
    IF deps = <<>> THEN m
    ELSE LET dep == Head(deps)
         IN  AddAsIs(IF ~ContainsIn(m, dep, target) THEN AddTo(m, dep, target)
                     ELSE m,
                     Tail(deps), target)

\* An add that writes the requirements down before it installs them.
AddCommand_PersistsFirst(name, arguments, dependencies, target, fail) ==
    LET deps == AddCandidates(file, dependencies, target)
        final == AddAsIs(file, deps, target)
        python_env == resolve_python_environment(venv)
    IN
    /\ deps # <<>>
    /\ fail \in {"none", "installer"}
    /\ IF fail = "installer" THEN
           Return(name, arguments, "installer", final, python_env, final, 1,
                  <<Run("install", deps, FALSE)>>, Resolve(TRUE))
       ELSE
           Return(name, arguments, "Ok", final,
                  [python_env EXCEPT
                      !.installed = InstallInto(@, deps, [n \in Names |-> 1])],
                  final, 1, <<Run("install", deps, TRUE)>>, Resolve(TRUE))

\* The body of add_project_dependencies (target <<>>) and of
\* add_project_optional_dependencies (target <<group>>).  `fail` is the
\* step that returns an error, if the command gets to it.
AddCommand(name, arguments, dependencies, target, fail) ==
    LET package == file
        metadata == file
        deps == AddCandidates(metadata, dependencies, target)
        python_env == resolve_python_environment(venv)
    IN
    IF fail = "load" THEN
        Return(name, arguments, "load", file, venv, file, 0, <<>>, NoLookup)
    ELSE IF deps = <<>> THEN
        /\ fail = "none"
        /\ Return(name, arguments, "Ok", file, venv, metadata, 0, <<>>, NoLookup)
    ELSE IF fail = "resolve" THEN
        Return(name, arguments, "resolve", file, venv, metadata, 0, <<>>,
               Resolve(FALSE))
    ELSE
      \E pick \in PickSet(Unresolved(python_env.installed, deps)) :
        IF fail = "installer" \/ Conflict(deps) THEN
            /\ fail \in {"none", "installer"}
            /\ \E left \in PartialRuns("install", python_env.installed, deps, pick) :
                Return(name, arguments, "installer", file,
                       [python_env EXCEPT !.installed = left], metadata, 0,
                       <<Run("install", deps, FALSE)>>, Resolve(TRUE))
        ELSE
            LET env2 == [python_env EXCEPT
                            !.installed = InstallInto(@, deps, pick)]
                run == <<Run("install", deps, TRUE)>>
                pinned == AddInstalled(metadata,
                                       installed_packages(env2.installed),
                                       deps, target)
                final == AddAsIs(pinned, deps, target)
            IN
            IF fail = "list" THEN
                Return(name, arguments, "list", file, env2, metadata, 0, run,
                       Resolve(TRUE))
            ELSE IF NeedsWrite(package, final) THEN
                IF fail = "write" THEN
                    Return(name, arguments, "write", file, env2, final, 1, run,
                           Resolve(TRUE))
                ELSE
                    /\ fail = "none"
                    /\ Return(name, arguments, "Ok", final, env2, final, 1, run,
                              Resolve(TRUE))
            ELSE
                /\ fail = "none"
                /\ Return(name, arguments, "Ok", file, env2, final, 0, run,
                          Resolve(TRUE))

AddFails == {"none", "load", "resolve", "installer", "list", "write"}

add_project_dependencies ==
    \E dependencies \in Batches, fail \in AddFails :
        AddCommand("add", [dependencies |-> dependencies, group |-> <<>>],
                   dependencies, <<>>, fail)

add_project_optional_dependencies ==
    \E dependencies \in Batches, group \in GroupNames, fail \in AddFails :
        AddCommand("add_optional",
                   [dependencies |-> dependencies, group |-> <<group>>],
                   dependencies, <<group>>, fail)

\* The groups of a document in the order of the file's table.
GroupOrder == <<"dev", "required">>

GroupKeys(m) == SelectSeq(GroupOrder, LAMBDA g : g \in DOMAIN m.optional)

\* optional_dependencies().values(), flattened.
RECURSIVE OptionalValues(_, _)
OptionalValues(m, groups) ==
    IF groups = <<>> THEN <<>>
    ELSE m.optional[Head(groups)] \o OptionalValues(m, Tail(groups))

\* Vec::dedup: of a run of equal neighbours the first is kept.  Two
\* Dependency values are equal when their names are.
RECURSIVE dedup(_)
dedup(seq) ==
    IF Len(seq) < 2 THEN seq
    ELSE IF seq[1].name = seq[2].name
         THEN dedup(<<seq[1]>> \o Tail(Tail(seq)))
    ELSE <<seq[1]>> \o dedup(Tail(seq))

\* A remove that does not filter its input against the document.
RemoveCandidates_Unfiltered(metadata, dependencies) ==
    dependency_iter(dependencies)

\* ops.rs 733-741: the dependencies to remove from the metadata file.
RemoveCandidates(metadata, dependencies) ==
    SelectSeq(dependency_iter(dependencies),
              LAMBDA dep : contains_dependency_any(metadata, dep))

\* ops.rs 752-759: each dependency leaves the required list and every group.
RECURSIVE RemoveFromGroups(_, _, _)
RemoveFromGroups(m, dep, groups) ==
    IF groups = <<>> THEN m
    ELSE RemoveFromGroups(remove_optional_dependency(m, dep, Head(groups)),
                          dep, Tail(groups))

\* A remove that forgets the optional groups.
RECURSIVE RemoveAll_RequiredOnly(_, _, _)
RemoveAll_RequiredOnly(m, deps, groups) ==
    IF deps = <<>> THEN m
    ELSE RemoveAll_RequiredOnly(remove_dependency(m, Head(deps)),
                                Tail(deps), groups)

RECURSIVE RemoveAll(_, _, _)
RemoveAll(m, deps, groups) ==
    IF deps = <<>> THEN m
    ELSE RemoveAll(RemoveFromGroups(remove_dependency(m, Head(deps)),
                                    Head(deps), groups),
                   Tail(deps), groups)

\* An uninstall step that leaves the environment alone.
UninstallStep_Skipped(arguments, deps, written, final, wrote, fail) ==
    /\ fail = "none"
    /\ Return("remove", arguments, "Ok", written, venv, final, wrote, <<>>,
              Current(venv, fail))

\* An uninstall step for which a missing environment is an error like any
\* other.
UninstallStep_NotFoundFails(arguments, deps, written, final, wrote, fail) ==
    IF fail = "lookup" \/ ~venv.exists THEN
        Return("remove", arguments, "lookup", written, venv, final, wrote, <<>>,
               Current(venv, fail))
    ELSE
        /\ fail = "none"
        /\ Return("remove", arguments, "Ok", written,
                  [venv EXCEPT !.installed = UninstallFrom(@, deps)],
                  final, wrote, <<Run("uninstall", deps, TRUE)>>,
                  Current(venv, fail))

\* ops.rs 765-772: the uninstall step of remove, run once the file is as
\* `written`.  No environment is not an error.
UninstallStep(arguments, deps, written, final, wrote, fail) ==
    IF fail = "lookup" THEN
        Return("remove", arguments, "lookup", written, venv, final, wrote, <<>>,
               Current(venv, fail))
    ELSE IF ~venv.exists THEN
        /\ fail = "none"
        /\ Return("remove", arguments, "Ok", written, venv, final, wrote, <<>>,
                  Current(venv, fail))
    ELSE IF fail = "installer" THEN
        \E left \in PartialRuns("uninstall", venv.installed, deps, <<>>) :
            Return("remove", arguments, "installer", written,
                   [venv EXCEPT !.installed = left], final, wrote,
                   <<Run("uninstall", deps, FALSE)>>, Current(venv, fail))
    ELSE
        /\ fail = "none"
        /\ Return("remove", arguments, "Ok", written,
                  [venv EXCEPT !.installed = UninstallFrom(@, deps)],
                  final, wrote, <<Run("uninstall", deps, TRUE)>>,
                  Current(venv, fail))

\* The body of remove_project_dependencies.  `fail` is the step that
\* returns an error, if the command gets to it.
RemoveCommand(dependencies, fail) ==
    LET arguments == [dependencies |-> dependencies]
        package == file
        metadata == file
        deps == RemoveCandidates(metadata, dependencies)
        groups == GroupKeys(metadata)
        final == RemoveAll(metadata, deps, groups)
    IN
    IF fail = "load" THEN
        Return("remove", arguments, "load", file, venv, file, 0, <<>>,
               NoLookup)
    ELSE IF deps = <<>> THEN
        /\ fail = "none"
        /\ Return("remove", arguments, "Ok", file, venv, metadata, 0, <<>>,
                  NoLookup)
    ELSE IF NeedsWrite(package, final) THEN
        IF fail = "write" THEN
            Return("remove", arguments, "write", file, venv, final, 1, <<>>,
                   NoLookup)
        ELSE UninstallStep(arguments, deps, final, final, 1, fail)
    ELSE
        /\ fail # "write"
        /\ UninstallStep(arguments, deps, file, final, 0, fail)

RemoveFails == {"none", "load", "write", "lookup", "installer"}

remove_project_dependencies ==
    \E dependencies \in Batches, fail \in RemoveFails :
        RemoveCommand(dependencies, fail)

\* ops.rs 850-863: the dependencies to update that the file lists.
UpdateCandidates(metadata, dependencies) ==
    SelectSeq(dependency_iter(dependencies),
              LAMBDA dep : contains_dependency_any(metadata, dep))

\* ops.rs 871-885: every requirement of the file.
AllDeclared(metadata) ==
    dedup(metadata.dependencies \o OptionalValues(metadata, GroupKeys(metadata)))

\* ops.rs 895-909: every installed package that is declared is re-declared
\* as the installed version, in the required list and in each group.
RECURSIVE RepinGroups(_, _, _)
RepinGroups(m, dep, groups) ==
    IF groups = <<>> THEN m
    ELSE LET g == Head(groups)
             m2 == IF contains_optional_dependency(m, dep, g)
                   THEN add_optional_dependency(
                            remove_optional_dependency(m, dep, g), dep, g)
                   ELSE m
         IN  RepinGroups(m2, dep, Tail(groups))

Repin_IntoRequired(m, pkgs, groups) ==
    IF pkgs = <<>> THEN m
    ELSE add_dependency(m, FromStr(PkgToString(Head(pkgs))))

RECURSIVE Repin(_, _, _)
Repin(m, pkgs, groups) ==
    IF pkgs = <<>> THEN m
    ELSE LET dep == FromStr(PkgToString(Head(pkgs)))
             m2 == IF contains_dependency(m, dep)
                   THEN add_dependency(remove_dependency(m, dep), dep)
                   ELSE m
         IN  Repin(RepinGroups(m2, dep, groups), Tail(pkgs), groups)

\* Option<T>: <<>> is None and <<x>> is Some(x).
Some(x) == <<x>>

\* ops.rs 839-916.  The environment is resolved, and created when there is
\* none, before the requests are looked at.
UpdateCommand(dependencies, fail) ==
    LET arguments == [dependencies |-> dependencies]
        package == file
        metadata == file
        python_env == resolve_python_environment(venv)
        deps == IF dependencies # None
                THEN UpdateCandidates(metadata, dependencies[1])
                ELSE AllDeclared(metadata)
        groups == GroupKeys(metadata)
    IN
    IF fail = "load" THEN
        Return("update", arguments, "load", file, venv, file, 0, <<>>,
               NoLookup)
    ELSE IF fail = "resolve" THEN
        Return("update", arguments, "resolve", file, venv, metadata, 0, <<>>,
               Resolve(FALSE))
    ELSE IF dependencies # None /\ deps = <<>> THEN
        /\ fail = "none"
        /\ Return("update", arguments, "Ok", file, python_env, metadata, 0,
                  <<>>, Resolve(TRUE))
    ELSE
      \E pick \in PickSet({n \in NamesOf(deps) : Pins(deps, n) = {}}) :
        IF fail = "installer" \/ Conflict(deps) THEN
            /\ fail \in {"none", "installer"}
            /\ \E left \in PartialRuns("update", python_env.installed, deps, pick) :
                Return("update", arguments, "installer", file,
                       [python_env EXCEPT !.installed = left], metadata, 0,
                       <<Run("update", deps, FALSE)>>, Resolve(TRUE))
        ELSE
            LET env2 == [python_env EXCEPT
                            !.installed = UpdateInto(@, deps, pick)]
                run == <<Run("update", deps, TRUE)>>
                final == Repin(metadata, installed_packages(env2.installed),
                               groups)
            IN
            IF fail = "list" THEN
                Return("update", arguments, "list", file, env2, metadata, 0,
                       run, Resolve(TRUE))
            ELSE IF NeedsWrite(package, final) THEN
                IF fail = "write" THEN
                    Return("update", arguments, "write", file, env2, final,
                           1, run, Resolve(TRUE))
                ELSE
                    /\ fail = "none"
                    /\ Return("update", arguments, "Ok", final, env2, final,
                              1, run, Resolve(TRUE))
            ELSE
                /\ fail = "none"
                /\ Return("update", arguments, "Ok", file, env2, final, 0,
                          run, Resolve(TRUE))

UpdateFails == {"none", "load", "resolve", "installer", "list", "write"}

update_project_dependencies ==
    \E dependencies \in {None} \cup {Some(b) : b \in Batches},
       fail \in UpdateFails :
        UpdateCommand(dependencies, fail)

\* The group names a caller can ask install for.
GroupArgs == {"dev", "docs", "required"}

GroupLists == UNION {[1..n -> GroupArgs] : n \in 1..MaxBatch}

\* An install that takes the required list for a group it does not find.
RECURSIVE GroupValues_MissingIsRequired(_, _)
GroupValues_MissingIsRequired(m, gs) ==
    IF gs = <<>> THEN <<>>
    ELSE (IF Head(gs) \in DOMAIN m.optional THEN m.optional[Head(gs)]
          ELSE m.dependencies)
         \o GroupValues_MissingIsRequired(m, Tail(gs))

\* ops.rs 469-478: the requirements of the named groups, a missing group
\* giving none.
RECURSIVE GroupValues(_, _)
GroupValues(m, gs) ==
    IF gs = <<>> THEN <<>>
    ELSE (IF Head(gs) \in DOMAIN m.optional THEN m.optional[Head(gs)] ELSE <<>>)
         \o GroupValues(m, Tail(gs))

\* An install for which "required" is one more group: the required list
\* and the requirements of the other groups asked for.
InstallSet_RequiredAndGroups(package, metadata, groups) ==
    dedup(IF groups # None THEN
              (IF /\ "required" \notin DOMAIN package.optional
                  /\ "required" \in Range(groups[1])
               THEN package.dependencies ELSE <<>>)
              \o GroupValues(package, groups[1])
          ELSE package.dependencies
               \o OptionalValues(metadata, GroupKeys(metadata)))

\* An install for which "required" always means the required list.
InstallSet_RequiredAlways(package, metadata, groups) ==
    dedup(IF groups # None THEN
              IF "required" \in Range(groups[1])
              THEN package.dependencies
              ELSE GroupValues(package, groups[1])
          ELSE package.dependencies
               \o OptionalValues(metadata, GroupKeys(metadata)))

Unwritten_Emptied(f) == [f EXCEPT !.dependencies = <<>>]

\* ops.rs 450-451, 502: install loads the document twice into bindings
\* that are not mutable and never calls write_file: the file stays.
Unwritten(f) == f

\* ops.rs 453-495: what install_project_dependencies installs.
InstallSet(package, metadata, groups) ==
    dedup(IF groups # None THEN
              IF /\ "required" \notin DOMAIN package.optional
                 /\ "required" \in Range(groups[1])
              THEN package.dependencies
              ELSE GroupValues(package, groups[1])
          ELSE package.dependencies
               \o OptionalValues(metadata, GroupKeys(metadata)))

install_project_dependencies ==
    \E groups \in {None} \cup {Some(gs) : gs \in GroupLists},
       fail \in {"none", "load", "resolve", "installer"} :
        LET arguments == [groups |-> groups]
            package == file
            metadata == file
            dependencies == InstallSet(package, metadata, groups)
            python_env == resolve_python_environment(venv)
        IN
        IF fail = "load" THEN
            Return("install", arguments, "load", file, venv, file, 0, <<>>,
                   NoLookup)
        ELSE IF dependencies = <<>> THEN
            /\ fail = "none"
            /\ Return("install", arguments, "Ok", Unwritten(package), venv, metadata, 0, <<>>,
                      NoLookup)
        ELSE IF fail = "resolve" THEN
            Return("install", arguments, "resolve", file, venv, metadata, 0, <<>>,
                   Resolve(FALSE))
        ELSE
          \E pick \in PickSet(Unresolved(python_env.installed, dependencies)) :
            IF fail = "installer" \/ Conflict(dependencies) THEN
                /\ fail \in {"none", "installer"}
                /\ \E left \in PartialRuns("install", python_env.installed, dependencies, pick) :
                    Return("install", arguments, "installer", Unwritten(package),
                           [python_env EXCEPT !.installed = left], metadata, 0,
                           <<Run("install", dependencies, FALSE)>>, Resolve(TRUE))
            ELSE
                /\ fail = "none"
                /\ Return("install", arguments, "Ok", Unwritten(package),
                          [python_env EXCEPT
                              !.installed = InstallInto(@, dependencies, pick)],
                          metadata, 0, <<Run("install", dependencies, TRUE)>>,
                          Resolve(TRUE))

\* ops.rs 244-253 (and 361-370, 576-585, 697-706, 807-816): a pin in the
\* "dev" group for every installed package among `names`.
RECURSIVE AddToDev(_, _, _)
AddToDev(m, pkgs, names) ==
    IF pkgs = <<>> THEN m
    ELSE LET pkg == Head(pkgs)
         IN  AddToDev(IF pkg.name \in names
                      THEN add_optional_dependency(m, FromStr(PkgToString(pkg)),
                                                   "dev")
                      ELSE m,
                      Tail(pkgs), names)

Undeclared_Every(m, tools) == Range(tools)

\* The helper tools of `tools` that no list of the document declares.
Undeclared(m, tools) ==
    {t \in Range(tools) : ~contains_dependency_any(m, FromStr(<<t>>))}

\* The body of build_project, publish_project and test_project (one tool)
\* and of format_project (two tools, two runs): install what the
\* environment lacks, declare what the document lacks, write, run.
ToolCommand(name, tools, runs, fail) ==
    LET arguments == [tools |-> tools]
        package == file
        metadata == file
        python_env == resolve_python_environment(venv)
        new_deps == SelectSeq(dependency_iter([i \in 1..Len(tools) |-> <<tools[i]>>]),
                       LAMBDA dep : ~contains_module(python_env.installed, dep.name))
    IN
    IF fail = "load" THEN
        Return(name, arguments, "load", file, venv, file, 0, <<>>, NoLookup)
    ELSE IF fail = "resolve" THEN
        Return(name, arguments, "resolve", file, venv, metadata, 0, <<>>,
               Resolve(FALSE))
    ELSE
      \E pick \in PickSet(NamesOf(new_deps)) :
        IF new_deps # <<>> /\ fail = "installer" THEN
            \E left \in PartialRuns("install", python_env.installed, new_deps, pick) :
                Return(name, arguments, "installer", file,
                       [python_env EXCEPT !.installed = left], metadata, 0,
                       <<Run("install", new_deps, FALSE)>>, Resolve(TRUE))
        ELSE
            LET env2 == [python_env EXCEPT
                            !.installed = InstallInto(@, new_deps, pick)]
                run == IF new_deps = <<>> THEN <<>>
                       ELSE <<Run("install", new_deps, TRUE)>>
                missing == Undeclared(metadata, tools)
                final == AddToDev(metadata, installed_packages(env2.installed),
                                  missing)
                wrote == IF NeedsWrite(package, final) THEN 1 ELSE 0
            IN
            IF missing # {} /\ fail = "list" THEN
                Return(name, arguments, "list", file, env2, metadata, 0, run,
                       Resolve(TRUE))
            ELSE IF NeedsWrite(package, final) /\ fail = "write" THEN
                Return(name, arguments, "write", file, env2, final, 1, run,
                       Resolve(TRUE))
            ELSE
                /\ fail \in runs \cup {"none"}
                /\ Return(name, arguments,
                          IF fail \in runs THEN fail ELSE "Ok",
                          IF NeedsWrite(package, final) THEN final ELSE file,
                          env2, final, wrote, run, Resolve(TRUE))

ToolFails == {"none", "load", "resolve", "installer", "list", "write", "run"}

build_project ==
    \E fail \in ToolFails : ToolCommand("build", <<"build">>, {"run"}, fail)

publish_project ==
    \E fail \in ToolFails : ToolCommand("publish", <<"twine">>, {"run"}, fail)

test_project ==
    \E fail \in ToolFails : ToolCommand("test", <<"pytest">>, {"run"}, fail)

format_project ==
    \E fail \in ToolFails \cup {"run2"} :
        ToolCommand("format", <<"black", "ruff">>, {"run", "run2"}, fail)

\* lint_project: ruff, and mypy when types are included, are installed one
\* by one and run before the document is touched.
lint_project ==
    \E include_types \in BOOLEAN,
       fail \in ToolFails \cup {"installer2", "run2"} :
        LET arguments == [include_types |-> include_types]
            package == file
            metadata == file
            python_env == resolve_python_environment(venv)
            ruff_dep == FromStr(<<"ruff">>)
            mypy_dep == FromStr(<<"mypy">>)
            lint_deps == IF include_types THEN <<ruff_dep, mypy_dep>>
                         ELSE <<ruff_dep>>
            needRuff == ~contains_module(python_env.installed, "ruff")
            needMypy == include_types /\ ~contains_module(python_env.installed, "mypy")
        IN
        IF fail = "load" THEN
            Return("lint", arguments, "load", file, venv, file, 0, <<>>, NoLookup)
        ELSE IF fail = "resolve" THEN
            Return("lint", arguments, "resolve", file, venv, metadata, 0, <<>>,
                   Resolve(FALSE))
        ELSE
          \E pick \in PickSet({n \in {"ruff", "mypy"} :
                                 \/ n = "ruff" /\ needRuff
                                 \/ n = "mypy" /\ needMypy}) :
            LET run1 == IF needRuff THEN <<Run("install", <<ruff_dep>>, TRUE)>>
                        ELSE <<>>
                env1 == IF needRuff
                        THEN [python_env EXCEPT
                                !.installed = InstallInto(@, <<ruff_dep>>, pick)]
                        ELSE python_env
                run2 == IF needMypy
                        THEN run1 \o <<Run("install", <<mypy_dep>>, TRUE)>>
                        ELSE run1
                env2 == IF needMypy
                        THEN [env1 EXCEPT
                                !.installed = InstallInto(@, <<mypy_dep>>, pick)]
                        ELSE env1
                missing == {d.name : d \in {x \in Range(lint_deps) :
                                          ~contains_dependency_any(metadata, x)}}
                final == AddToDev(metadata, installed_packages(env2.installed),
                                  missing)
                wrote == IF NeedsWrite(package, final) THEN 1 ELSE 0
            IN
            IF needRuff /\ fail = "installer" THEN
                Return("lint", arguments, "installer", file, python_env, metadata,
                       0, <<Run("install", <<ruff_dep>>, FALSE)>>, Resolve(TRUE))
            ELSE IF needMypy /\ fail = "installer2" THEN
                Return("lint", arguments, "installer2", file, env1, metadata, 0,
                       run1 \o <<Run("install", <<mypy_dep>>, FALSE)>>,
                       Resolve(TRUE))
            ELSE IF include_types /\ fail = "run2" THEN
                Return("lint", arguments, "run2", file, env2, metadata, 0, run2,
                       Resolve(TRUE))
            ELSE IF fail = "run" THEN
                Return("lint", arguments, "run", file, env2, metadata, 0, run2,
                       Resolve(TRUE))
            ELSE IF missing # {} /\ fail = "list" THEN
                Return("lint", arguments, "list", file, env2, metadata, 0, run2,
                       Resolve(TRUE))
            ELSE IF NeedsWrite(package, final) /\ fail = "write" THEN
                Return("lint", arguments, "write", file, env2, final, 1, run2,
                       Resolve(TRUE))
            ELSE
                /\ fail = "none"
                /\ Return("lint", arguments, "Ok",
                          IF NeedsWrite(package, final) THEN final ELSE file,
                          env2, final, wrote, run2, Resolve(TRUE))

---------------------------------------------------------------------------
(* The project before the first command: a metadata file whose lists name  *)
(* no package twice, and no environment or one with any of the packages    *)
(* (a fresh checkout declares packages that are not installed yet).        *)

Pinned(n, v) == [name |-> n, version_or_url |-> <<"==", v>>]

Unpinned(n) == [name |-> n, version_or_url |-> None]

AtLeast(n, v) == [name |-> n, version_or_url |-> <<">=", v>>]

Document(required, optional) == [dependencies |-> required, optional |-> optional]

NoGroups == [g \in {} |-> <<>>]

InitDocuments ==
    {Document(<<>>, NoGroups),
     Document(<<>>, [g \in {"dev"} |-> <<>>]),
     Document(<<Pinned("click", 1)>>, [g \in {"dev"} |-> <<Unpinned("ruff")>>]),
     Document(<<Unpinned("click"), Pinned("ruff", 1)>>,
              [g \in {"dev"} |-> <<Pinned("click", 1)>>]),
     Document(<<AtLeast("click", 1)>>, NoGroups)}

DeclaredNames(m) ==
    NamesOf(m.dependencies) \cup UNION {NamesOf(m.optional[g]) : g \in DOMAIN m.optional}

Init ==
    /\ file \in InitDocuments
    /\ venv \in {NoEnv} \cup
            {[exists |-> TRUE,
              installed |-> [n \in Names |-> IF n \in UserNames THEN e[n] ELSE 0]] :
                e \in [UserNames -> 0..MaxVersion]}
    /\ op = "none"
    /\ args = <<>>
    /\ result = "Ok"
    /\ before = file
    /\ envBefore = venv
    /\ live = file
    /\ writes = 0
    /\ calls = <<>>
    /\ lookup = NoLookup
    /\ ran = 0
    /\ tree = NoTree
    /\ treeBefore = NoTree
    /\ environ = NoEnviron
    /\ environBefore = NoEnviron

\* Every command is a process of its own: it takes nothing from the run
\* before it but the file and the environment.
Forget ==
    /\ op # "none"
    /\ op' = "none"
    /\ args' = <<>>
    /\ result' = "Ok"
    /\ before' = file
    /\ envBefore' = venv
    /\ live' = file
    /\ writes' = 0
    /\ calls' = <<>>
    /\ lookup' = NoLookup
    /\ KeepTree
    /\ KeepEnviron
    /\ UNCHANGED <<file, venv>>

\* The process of a command exits.
Exit == Forget /\ ran' = 0

Next ==
    \/ op = "none" /\ add_project_dependencies
    \/ op = "none" /\ add_project_optional_dependencies
    \/ op = "none" /\ remove_project_dependencies
    \/ op = "none" /\ update_project_dependencies
    \/ op = "none" /\ install_project_dependencies
    \/ Exit

Spec == Init /\ [][Next]_vars

\* How many commands a session of SpecAll runs.
MaxCommands == 2

\* An environment that holds what the initial documents declare, and one
\* of the helper tools.
SomeEnv ==
    [exists |-> TRUE,
     installed |-> [n \in Names |-> IF n \in {"click", "ruff", "pytest"}
                                    THEN 1 ELSE 0]]

InitAll ==
    /\ Init
    /\ venv \in {NoEnv, SomeEnv}

\* Every command of ops.rs that loads the metadata file, in sessions of up
\* to MaxCommands commands.
\* The process of a command exits, the session goes on.
Continue == Forget /\ ran' = ran

NextAll ==
    \/ op = "none" /\ ran < MaxCommands /\ add_project_dependencies
    \/ op = "none" /\ ran < MaxCommands /\ add_project_optional_dependencies
    \/ op = "none" /\ ran < MaxCommands /\ remove_project_dependencies
    \/ op = "none" /\ ran < MaxCommands /\ update_project_dependencies
    \/ op = "none" /\ ran < MaxCommands /\ install_project_dependencies
    \/ op = "none" /\ ran < MaxCommands /\ build_project
    \/ op = "none" /\ ran < MaxCommands /\ format_project
    \/ op = "none" /\ ran < MaxCommands /\ lint_project
    \/ op = "none" /\ ran < MaxCommands /\ publish_project
    \/ op = "none" /\ ran < MaxCommands /\ test_project
    \/ Continue

SpecAll == InitAll /\ [][NextAll]_vars

\* The four commands that change what the file declares, over requests
\* that may give a lower bound, in sessions of up to MaxCommands commands.
NextRange ==
    \/ /\ op = "none" /\ ran < MaxCommands
       /\ \E dependencies \in RangeBatches, fail \in AddFails :
             AddCommand("add", [dependencies |-> dependencies, group |-> <<>>],
                        dependencies, <<>>, fail)
    \/ /\ op = "none" /\ ran < MaxCommands
       /\ \E dependencies \in RangeBatches, group \in GroupNames,
             fail \in AddFails :
             AddCommand("add_optional",
                        [dependencies |-> dependencies, group |-> <<group>>],
                        dependencies, <<group>>, fail)
    \/ /\ op = "none" /\ ran < MaxCommands
       /\ \E dependencies \in RangeBatches, fail \in RemoveFails :
             RemoveCommand(dependencies, fail)
    \/ /\ op = "none" /\ ran < MaxCommands
       /\ \E dependencies \in {None} \cup {Some(b) : b \in RangeBatches},
             fail \in UpdateFails :
             UpdateCommand(dependencies, fail)
    \/ Continue

SpecRange == InitAll /\ [][NextRange]_vars

\* dependency_iter gives up on a string that does not parse and the
\* process of the command ends there: after the load, and for update after
\* the environment was resolved.
Panic(name, arguments, dependencies, newEnv, how) ==
    /\ \E i \in 1..Len(dependencies) : ~Parses(dependencies[i])
    /\ Return(name, arguments, "panic", file, newEnv, file, 0, <<>>, how)

\* The four commands that take requirement strings, over lists that may
\* hold a string that does not parse, in sessions of up to MaxCommands
\* commands.  What dependency_iter does with such a string is not in
\* ops.rs: it is left out of the items, or the process ends.
NextParse ==
    \/ /\ op = "none" /\ ran < MaxCommands
       /\ \E dependencies \in ParseBatches, fail \in AddFails \cup {"panic"} :
             LET arguments == [dependencies |-> dependencies, group |-> <<>>]
             IN  IF fail = "panic"
                 THEN Panic("add", arguments, dependencies, venv, NoLookup)
                 ELSE AddCommand("add", arguments, dependencies, <<>>, fail)
    \/ /\ op = "none" /\ ran < MaxCommands
       /\ \E dependencies \in ParseBatches, group \in GroupNames,
             fail \in AddFails \cup {"panic"} :
             LET arguments == [dependencies |-> dependencies,
                               group |-> <<group>>]
             IN  IF fail = "panic"
                 THEN Panic("add_optional", arguments, dependencies, venv,
                            NoLookup)
                 ELSE AddCommand("add_optional", arguments, dependencies,
                                 <<group>>, fail)
    \/ /\ op = "none" /\ ran < MaxCommands
       /\ \E dependencies \in ParseBatches, fail \in RemoveFails \cup {"panic"} :
             IF fail = "panic"
             THEN Panic("remove", [dependencies |-> dependencies],
                        dependencies, venv, NoLookup)
             ELSE RemoveCommand(dependencies, fail)
    \/ /\ op = "none" /\ ran < MaxCommands
       /\ \E dependencies \in ParseBatches, fail \in UpdateFails \cup {"panic"} :
             IF fail = "panic"
             THEN Panic("update", [dependencies |-> Some(dependencies)],
                        dependencies, resolve_python_environment(venv),
                        Resolve(TRUE))
             ELSE UpdateCommand(Some(dependencies), fail)
    \/ Continue

SpecParse == InitAll /\ [][NextParse]_vars

\* The same add, run again with the arguments of the one that just
\* returned Ok.
add_again ==
    /\ ran = 1
    /\ op \in {"add", "add_optional"}
    /\ result = "Ok"
    /\ \E fail \in AddFails :
          AddCommand(op, args, args.dependencies, args.group, fail)

NextTwice ==
    \/ ran = 0 /\ add_project_dependencies
    \/ ran = 0 /\ add_project_optional_dependencies
    \/ add_again

SpecTwice == Init /\ [][NextTwice]_vars

\* A project with an empty required list and an empty dev group, to which
\* pytest is added as a dev dependency and then removed.
PytestDocuments ==
    {Document(<<>>, [g \in {"dev"} |-> <<>>]),
     Document(<<>>, [g \in {"dev", "required"} |->
                        IF g = "dev" THEN <<>> ELSE <<Pinned("click", 1)>>])}

\* The environment of the project may already hold pytest.
PytestEnvs ==
    {NoEnv} \cup
    {[exists |-> TRUE,
      installed |-> [n \in Names |-> IF n \in UserNames \cup {"pytest"}
                                     THEN e[n] ELSE 0]] :
        e \in [UserNames \cup {"pytest"} -> 0..MaxVersion]}

InitPytest ==
    /\ file \in PytestDocuments
    /\ venv \in PytestEnvs
    /\ op = "none"
    /\ args = <<>>
    /\ result = "Ok"
    /\ before = file
    /\ envBefore = venv
    /\ live = file
    /\ writes = 0
    /\ calls = <<>>
    /\ lookup = NoLookup
    /\ ran = 0
    /\ tree = NoTree
    /\ treeBefore = NoTree
    /\ environ = NoEnviron
    /\ environBefore = NoEnviron

add_pytest ==
    /\ ran = 0
    /\ \E fail \in AddFails :
          AddCommand("add_optional",
                     [dependencies |-> <<(<<"pytest">>)>>, group |-> <<"dev">>],
                     <<(<<"pytest">>)>>, <<"dev">>, fail)

remove_pytest ==
    /\ ran = 1
    /\ op = "add_optional"
    /\ result = "Ok"
    /\ \E fail \in RemoveFails : RemoveCommand(<<(<<"pytest">>)>>, fail)

NextPytest == add_pytest \/ remove_pytest

SpecPytest == InitPytest /\ [][NextPytest]_vars

\* Projects that have an optional group of their own named "required".
RequiredGroupDocuments ==
    {Document(<<Pinned("ruff", 1)>>,
              [g \in {"dev", "required"} |->
                  IF g = "dev" THEN <<Unpinned("click")>>
                  ELSE <<Pinned("click", 1)>>]),
     Document(<<Unpinned("click")>>,
              [g \in {"required"} |-> <<Pinned("ruff", MaxVersion)>>]),
     Document(<<Unpinned("click")>>,
              [g \in {"dev", "required"} |->
                  IF g = "dev" THEN <<Pinned("click", 1), Unpinned("ruff")>>
                  ELSE <<>>])}

InitInstall ==
    /\ file \in InitDocuments \cup RequiredGroupDocuments
    /\ venv \in {NoEnv} \cup
            {[exists |-> TRUE,
              installed |-> [n \in Names |-> IF n \in UserNames THEN e[n] ELSE 0]] :
                e \in [UserNames -> 0..MaxVersion]}
    /\ op = "none"
    /\ args = <<>>
    /\ result = "Ok"
    /\ before = file
    /\ envBefore = venv
    /\ live = file
    /\ writes = 0
    /\ calls = <<>>
    /\ lookup = NoLookup
    /\ ran = 0
    /\ tree = NoTree
    /\ treeBefore = NoTree
    /\ environ = NoEnviron
    /\ environBefore = NoEnviron

\* install_project_dependencies on projects with and without a group named
\* "required", in sessions of up to MaxCommands commands.
NextInstall ==
    \/ op = "none" /\ ran < MaxCommands /\ install_project_dependencies
    \/ op = "none" /\ ran < MaxCommands /\ remove_project_dependencies
    \/ Continue

SpecInstall == InitInstall /\ [][NextInstall]_vars

---------------------------------------------------------------------------
(* init_lib_project, init_app_project, new_lib_project, new_app_project.   *)
(* The workspace is a function from paths to what is there: "none" for     *)
(* nothing, "user" for what the user put there, "huak" for what a command  *)
(* created.  "." is the workspace root.                                    *)

\* There is no metadata file.
NoFile == [found |-> FALSE]

\* A metadata file that does not load: it is not TOML, or cannot be read.
Unreadable == [found |-> TRUE, loads |-> FALSE]

\* workspace.current_local_metadata() is Ok(_).
Loads(f) == f \notin {NoFile, Unreadable}

ProjectPaths ==
    {".", ".git", ".gitignore", "src/pkg/__init__.py", "src/pkg/main.py",
     "tests/test_version.py"}

\* LocalMetadata::template with the project name set, and its scripts.
Template(name, scripts) ==
    [dependencies |-> <<>>, optional |-> NoGroups, name |-> name,
     scripts |-> scripts]

\* What a command leaves: its result, the metadata file, the tree and the
\* number of write_file calls.
Outcome(res, f, t, n) == [result |-> res, file |-> f, tree |-> t, writes |-> n]

\* std::fs::write, create_dir, git::init: the path is there afterwards.
Created(t, path) == [t EXCEPT ![path] = "huak"]

\* ops.rs 1001-1013: git is initialized and a .gitignore added unless they
\* exist.
init_git(t, fail) ==
    IF t[".git"] = "none" /\ fail = "git" THEN [ok |-> FALSE, tree |-> t]
    ELSE LET t2 == IF t[".git"] = "none" THEN Created(t, ".git") ELSE t
         IN  IF t2[".gitignore"] = "none" /\ fail = "gitignore"
             THEN [ok |-> FALSE, tree |-> t2]
             ELSE [ok |-> TRUE,
                   tree |-> IF t2[".gitignore"] = "none"
                            THEN Created(t2, ".gitignore") ELSE t2]

\* ops.rs 421-442.  Every error of the load, not only "not found", takes
\* the arm that creates the template.
init_lib(f, t, uses_git, fail) ==
    IF Loads(f) THEN Outcome("MetadataFileFound", f, t, 0)
    ELSE LET g == IF uses_git THEN init_git(t, fail)
                  ELSE [ok |-> TRUE, tree |-> t]
         IN  IF ~g.ok THEN Outcome(fail, f, g.tree, 0)
             ELSE IF fail = "name" THEN Outcome("name", f, g.tree, 0)
             ELSE IF fail = "write" THEN Outcome("write", f, g.tree, 1)
             ELSE Outcome("Ok", Template("pkg", {}), g.tree, 1)

\* ops.rs 401-419: init_lib_project, then the script entry is added to the
\* file it wrote.
init_app(f, t, uses_git, fail) ==
    LET lib == init_lib(f, t, uses_git, fail)
    IN  IF lib.result # "Ok" THEN lib
        ELSE IF fail \in {"load", "parse"}
        THEN Outcome(fail, lib.file, lib.tree, lib.writes)
        ELSE IF fail = "write2"
        THEN Outcome("write2", lib.file, lib.tree, lib.writes + 1)
        ELSE Outcome("Ok", Template("pkg", {"pkg"}), lib.tree, lib.writes + 1)

\* ops.rs 985-995: the root is created, and must not exist.
create_workspace(t, fail) ==
    IF t["."] # "none" THEN [err |-> "DirectoryExists", tree |-> t]
    ELSE IF fail = "mkdir" THEN [err |-> "mkdir", tree |-> t]
    ELSE [err |-> "Ok", tree |-> Created(t, ".")]

\* ops.rs 636-674.
new_lib(f, t, uses_git, fail) ==
    IF Loads(f) THEN Outcome("ProjectFound", f, t, 0)
    ELSE
      LET ws == create_workspace(t, fail)
          g == IF uses_git THEN init_git(ws.tree, fail)
               ELSE [ok |-> TRUE, tree |-> ws.tree]
          written == Template("pkg", {})
          t3 == Created(g.tree, "src/pkg/__init__.py")
      IN  IF ws.err # "Ok" THEN Outcome(ws.err, f, t, 0)
          ELSE IF ~g.ok THEN Outcome(fail, f, g.tree, 0)
          ELSE IF fail = "name" THEN Outcome("name", f, g.tree, 0)
          ELSE IF fail = "write" THEN Outcome("write", f, g.tree, 1)
          ELSE IF fail \in {"parse", "init_py"}
          THEN Outcome(fail, written, g.tree, 1)
          ELSE IF fail = "test_py" THEN Outcome("test_py", written, t3, 1)
          ELSE Outcome("Ok", written, Created(t3, "tests/test_version.py"), 1)

\* ops.rs 609-634: new_lib_project, then main.py and the script entry.
new_app(f, t, uses_git, fail) ==
    LET lib == new_lib(f, t, uses_git, fail)
    IN  IF lib.result # "Ok" THEN lib
        ELSE IF fail \in {"load", "main_py"}
        THEN Outcome(fail, lib.file, lib.tree, lib.writes)
        ELSE IF fail = "write2"
        THEN Outcome("write2", lib.file, Created(lib.tree, "src/pkg/main.py"),
                     lib.writes + 1)
        ELSE Outcome("Ok", Template("pkg", {"pkg"}),
                     Created(lib.tree, "src/pkg/main.py"), lib.writes + 1)

\* A command of this section returns.
Scaffold(name, uses_git, out) ==
    /\ op' = name
    /\ args' = [uses_git |-> uses_git]
    /\ result' = out.result
    /\ before' = file
    /\ envBefore' = venv
    /\ file' = out.file
    /\ venv' = venv
    /\ live' = out.file
    /\ writes' = out.writes
    /\ calls' = <<>>
    /\ lookup' = NoLookup
    /\ ran' = ran + 1
    /\ tree' = out.tree
    /\ treeBefore' = tree
    /\ KeepEnviron

ScaffoldFails ==
    {"none", "git", "gitignore", "name", "write", "load", "parse", "write2",
     "mkdir", "init_py", "test_py", "main_py"}

\* init runs in the directory it initializes.
init_lib_project ==
    /\ tree["."] # "none"
    /\ \E uses_git \in BOOLEAN, fail \in ScaffoldFails :
          Scaffold("init_lib", uses_git, init_lib(file, tree, uses_git, fail))

init_app_project ==
    /\ tree["."] # "none"
    /\ \E uses_git \in BOOLEAN, fail \in ScaffoldFails :
          Scaffold("init_app", uses_git, init_app(file, tree, uses_git, fail))

new_lib_project ==
    \E uses_git \in BOOLEAN, fail \in ScaffoldFails :
        Scaffold("new_lib", uses_git, new_lib(file, tree, uses_git, fail))

new_app_project ==
    \E uses_git \in BOOLEAN, fail \in ScaffoldFails :
        Scaffold("new_app", uses_git, new_app(file, tree, uses_git, fail))

\* The workspaces a command of this section can find: no root directory
\* and so nothing in it, or a root with or without a loadable metadata file
\* and the user's files.
InitScaffold ==
    /\ file \in InitDocuments \cup {NoFile, Unreadable}
    /\ tree \in [ProjectPaths -> {"none", "user"}]
    /\ tree["."] = "none" =>
          file = NoFile /\ \A path \in ProjectPaths : tree[path] = "none"
    /\ venv = NoEnv
    /\ op = "none"
    /\ args = <<>>
    /\ result = "Ok"
    /\ before = file
    /\ envBefore = venv
    /\ live = file
    /\ writes = 0
    /\ calls = <<>>
    /\ lookup = NoLookup
    /\ ran = 0
    /\ treeBefore = tree
    /\ environ = NoEnviron
    /\ environBefore = NoEnviron

NextScaffold ==
    \/ op = "none" /\ ran < MaxCommands /\ init_lib_project
    \/ op = "none" /\ ran < MaxCommands /\ init_app_project
    \/ op = "none" /\ ran < MaxCommands /\ new_lib_project
    \/ op = "none" /\ ran < MaxCommands /\ new_app_project
    \/ Continue

SpecScaffold == InitScaffold /\ [][NextScaffold]_vars

---------------------------------------------------------------------------
(* use_python, run_command_str, activate_python_environment.  An           *)
(* environment here also has the version of its interpreter and its root   *)
(* directory; `calls` holds the directory removals and the processes a     *)
(* command spawned; `environ` is [PATH: the search-path entries,           *)
(* VIRTUAL_ENV: the root of the active environment, or ""].                *)

PythonVersions == {"3.10", "3.11"}

EnvRoots == {".venv", "venv"}

\* PythonEnvironment::executables_dir_path
executables_dir_path(env) == IF env.root = ".venv" THEN ".venv/bin" ELSE "venv/bin"

\* PythonEnvironment::active: the process runs inside the environment.
active(env, parent) == parent.VIRTUAL_ENV = env.root

\* The interpreters of the host: what each reports as its version.
Interpreters ==
    {[version |-> "3.10", path |-> "/usr/bin/python3.10"],
     [version |-> "3.11", path |-> "/usr/bin/python3.11"],
     [version |-> "3.11", path |-> "/opt/bin/python3.11"]}

VersionAt(path) == (CHOOSE i \in Interpreters : i.path = path).version

\* Environment::resolve_python_interpreters: the interpreters found, in
\* search-path order.
InterpreterLists ==
    {<<>>} \cup {<<i>> : i \in Interpreters}
        \cup {l \in {<<i, j>> : i \in Interpreters, j \in Interpreters} :
                 l[1] # l[2]}

\* A use_python that takes the first interpreter found, whatever its
\* version.
FindInterpreter_OrFirst(interpreters, version) ==
    LET hits == {i \in 1..Len(interpreters) : interpreters[i].version = version}
    IN  IF interpreters = <<>> THEN <<>>
        ELSE IF hits = {} THEN <<interpreters[1].path>>
        ELSE <<interpreters[CHOOSE i \in hits : \A j \in hits : i <= j].path>>

FindInterpreter_First(interpreters, version) ==
    IF interpreters = <<>> THEN <<>> ELSE <<interpreters[1].path>>

\* ops.rs 922-930: the path of the first interpreter whose version string
\* is `version`, as an Option.
FindInterpreter(interpreters, version) ==
    LET hits == {i \in 1..Len(interpreters) : interpreters[i].version = version}
    IN  IF hits = {} THEN None
        ELSE Some(interpreters[CHOOSE i \in hits : \A j \in hits : i <= j].path)

\* A process::Command: the program, its arguments and the environment
\* variables set on it (the others are inherited), and how it exited.
Spawn(program, argv, overrides, ok) ==
    [kind |-> "spawn", program |-> program, argv |-> argv, env |-> overrides,
     ok |-> ok]

\* std::fs::remove_dir_all
RemoveDir(root, ok) == [kind |-> "remove_dir_all", root |-> root, ok |-> ok]

\* No variable is set on the command.
Inherit == <<>>

\* A command of this section returns.
Shell(name, arguments, res, newEnv, runs, how, newEnviron) ==
    /\ op' = name
    /\ args' = arguments
    /\ result' = res
    /\ before' = file
    /\ envBefore' = venv
    /\ file' = file
    /\ venv' = newEnv
    /\ live' = file
    /\ writes' = 0
    /\ calls' = runs
    /\ lookup' = how
    /\ ran' = ran + 1
    /\ KeepTree
    /\ environ' = newEnviron
    /\ environBefore' = environ

Removal_None(v) == <<>>

\* ops.rs 933-936: the current environment, if there is one, is removed.
Removal(v) == IF v.exists THEN <<RemoveDir(v.root, TRUE)>> ELSE <<>>

\* ops.rs 918-945.
use_python ==
    \E version \in PythonVersions \cup {"3.12"},
       interpreters \in InterpreterLists,
       fail \in {"none", "lookup", "remove_dir", "run"} :
        LET arguments == [version |-> version, interpreters |-> interpreters]
            path == FindInterpreter(interpreters, version)
            how == Current(venv, fail)
            removal == Removal(venv)
            cmd(ok) == Spawn(path[1], <<"-m", "venv", ".venv">>, Inherit, ok)
        IN
        IF path = None THEN
            /\ fail = "none"
            /\ Shell("use_python", arguments, "PythonNotFound", venv, <<>>,
                     NoLookup, environ)
        ELSE IF fail = "lookup" THEN
            /\ venv.exists
            /\ Shell("use_python", arguments, "lookup", venv, <<>>, how, environ)
        ELSE IF fail = "remove_dir" THEN
            /\ venv.exists
            /\ \E left \in {venv, NoEnv} :
                  Shell("use_python", arguments, "remove_dir", left,
                        <<RemoveDir(venv.root, FALSE)>>, how, environ)
        ELSE IF fail = "run" THEN
            Shell("use_python", arguments, "run", NoEnv,
                  removal \o <<cmd(FALSE)>>, how, environ)
        ELSE
            Shell("use_python", arguments, "Ok",
                  [exists |-> TRUE, installed |-> EmptyEnv,
                   python |-> VersionAt(path[1]), root |-> ".venv"],
                  removal \o <<cmd(TRUE)>>, how, environ)

\* The variables a spawned command runs with: those set on it, and the
\* parent's for the rest.
Effective(parent, cmd) ==
    [v \in DOMAIN parent |->
        IF v \in DOMAIN cmd.env THEN cmd.env[v] ELSE parent[v]]

\* A make_venv_command that exports the variables in its own process and
\* lets the command inherit them.
make_venv_command_SetsParent(cmd, env, parent) ==
    [cmd |-> cmd,
     parent |-> [PATH |-> <<executables_dir_path(env)>> \o parent.PATH,
                 VIRTUAL_ENV |-> env.root]]

\* ops.rs 967-982: PATH, with the environment's executables directory put
\* in front of the entries of the process, and VIRTUAL_ENV are set on the
\* command.  Returned are the command and the variables of the process.
make_venv_command(cmd, env, parent) ==
    LET paths == <<executables_dir_path(env)>> \o parent.PATH
    IN  [cmd |-> [cmd EXCEPT !.env =
                     [v \in {"PATH", "VIRTUAL_ENV"} |->
                         IF v = "PATH" THEN paths ELSE env.root]],
         parent |-> parent]

\* What the shell runs for run_command_str.
Commands == {"pip install black", "true"}

\* The environment after the command ran: pip is the first pip on its
\* search path, and installs into the environment it belongs to.
Effect(command, env, variables) ==
    IF /\ command = "pip install black"
       /\ variables.PATH # <<>>
       /\ variables.PATH[1] = executables_dir_path(env)
    THEN [env EXCEPT !.installed = InstallInto(@, <<FromStr(<<"black">>)>>,
                                               [n \in Names |-> 1])]
    ELSE env

\* A lookup that makes the environment when there is none.
NeededEnvironment_Created(v) ==
    IF v.exists THEN v
    ELSE [exists |-> TRUE, installed |-> EmptyEnv, python |-> "3.11",
          root |-> ".venv"]

\* ops.rs 777 and 79: workspace.current_python_environment(), the
\* environment as it is found and not resolve_python_environment().
NeededEnvironment(v) == v

\* ops.rs 775-787.
run_command_str ==
    \E command \in Commands,
       fail \in {"none", "lookup", "shell", "join", "run"} :
        LET arguments == [command |-> command]
            python_env == NeededEnvironment(venv)
            how == Current(venv, fail)
            out == make_venv_command(Spawn("sh", <<>>, Inherit, TRUE),
                                     python_env, environ)
            cmd == [out.cmd EXCEPT !.argv = <<"-c", command>>,
                                   !.ok = fail # "run"]
        IN
        IF fail = "lookup" THEN
            /\ venv.exists
            /\ Shell("run", arguments, "lookup", venv, <<>>, how, environ)
        ELSE IF ~python_env.exists THEN
            /\ fail = "none"
            /\ Shell("run", arguments, "PythonEnvironmentNotFound", venv, <<>>,
                     how, environ)
        ELSE IF fail = "shell" THEN
            Shell("run", arguments, "shell", python_env, <<>>, how, environ)
        ELSE IF fail = "join" THEN
            Shell("run", arguments, "InternalError", python_env, <<>>, how,
                  environ)
        ELSE
            Shell("run", arguments, IF fail = "run" THEN "run" ELSE "Ok",
                  IF fail = "run" THEN python_env
                  ELSE Effect(command, python_env, Effective(out.parent, cmd)),
                  <<cmd>>, how, out.parent)

\* ops.rs 77-116.
activate_python_environment ==
    \E fail \in {"none", "lookup", "run"} :
        LET python_env == NeededEnvironment(venv)
            how == Current(venv, fail)
        IN
        IF fail = "lookup" THEN
            /\ venv.exists
            /\ Shell("activate", <<>>, "lookup", venv, <<>>, how, environ)
        ELSE IF ~python_env.exists THEN
            /\ fail = "none"
            /\ Shell("activate", <<>>, "PythonEnvironmentNotFound", venv, <<>>,
                     how, environ)
        ELSE IF active(python_env, environ) THEN
            /\ fail = "none"
            /\ Shell("activate", <<>>, "Ok", python_env, <<>>, how, environ)
        ELSE
            Shell("activate", <<>>, IF fail = "run" THEN "run" ELSE "Ok",
                  python_env,
                  <<Spawn("bash",
                          <<"--init-file", executables_dir_path(python_env),
                            "activate", "-i">>,
                          Inherit, fail # "run")>>,
                  how, environ)

\* The environments of a project, each made by one of the interpreters.
ShellEnvs ==
    {NoEnv} \cup
    {[exists |-> TRUE,
      installed |-> [n \in Names |-> IF n = "click" THEN c ELSE 0],
      python |-> py, root |-> r] :
        c \in 0..1, py \in PythonVersions, r \in EnvRoots}

\* The variables of the process: the search path, and the active
\* environment if the process runs in one.
Environs ==
    {[PATH |-> ps, VIRTUAL_ENV |-> ""] :
        ps \in {<<>>, <<"/usr/bin">>, <<"/usr/bin", "/bin">>}}
    \cup {[PATH |-> <<".venv/bin", "/usr/bin">>, VIRTUAL_ENV |-> ".venv"]}

InitShell ==
    /\ file \in InitDocuments
    /\ venv \in ShellEnvs
    /\ environ \in Environs
    /\ environ.VIRTUAL_ENV # "" => venv.exists /\ venv.root = environ.VIRTUAL_ENV
    /\ op = "none"
    /\ args = <<>>
    /\ result = "Ok"
    /\ before = file
    /\ envBefore = venv
    /\ live = file
    /\ writes = 0
    /\ calls = <<>>
    /\ lookup = NoLookup
    /\ ran = 0
    /\ tree = NoTree
    /\ treeBefore = NoTree
    /\ environBefore = environ

NextShell ==
    \/ op = "none" /\ ran < MaxCommands /\ use_python
    \/ op = "none" /\ ran < MaxCommands /\ run_command_str
    \/ op = "none" /\ ran < MaxCommands /\ activate_python_environment
    \/ op = "none" /\ ran < MaxCommands /\ remove_project_dependencies
    \/ Continue

SpecShell == InitShell /\ [][NextShell]_vars

---------------------------------------------------------------------------
(* clean_project.  The workspace is a function from paths to whether the   *)
(* path is there; what kind of thing a path is, is fixed by its name.      *)

CleanPaths ==
    {"dist", "dist/pkg.whl", "dist/build", "dist/link", "src/__pycache__",
     "src/__pycache__/mod.pyc", "src/mod.pyc", "src/mod.py"}

\* The directory a path is an entry of; "." is the workspace root.
Parent(path) ==
    CASE path \in {"dist/pkg.whl", "dist/build", "dist/link"} -> "dist"
      [] path = "src/__pycache__/mod.pyc" -> "src/__pycache__"
      [] OTHER -> "."

\* Path::is_dir and Path::is_file; a dangling link is neither.
is_dir(path) == path \in {"dist", "dist/build", "src/__pycache__"}

is_file(path) ==
    path \in {"dist/pkg.whl", "src/__pycache__/mod.pyc", "src/mod.pyc",
              "src/mod.py"}

\* glob("<root>/**/__pycache__") and glob("<root>/**/*.pyc")
PycachePaths == {"src/__pycache__"}

PycPaths == {"src/__pycache__/mod.pyc", "src/mod.pyc"}

\* std::fs::remove_dir_all / remove_file of `path`, with `.ok()`: if the
\* removal fails the path stays and the error is dropped.
Removed(t, path, stuck) ==
    IF path \in stuck THEN t
    ELSE [q \in DOMAIN t |->
             IF q = path \/ Parent(q) = path THEN FALSE ELSE t[q]]

\* A sequence of removals, one path after the other.
RECURSIVE RemovedAll(_, _, _)
RemovedAll(t, paths, stuck) ==
    IF paths = {} THEN t
    ELSE LET path == CHOOSE q \in paths : TRUE
         IN  RemovedAll(IF t[path] THEN Removed(t, path, stuck) ELSE t,
                        paths \ {path}, stuck)

\* ops.rs 278-289: the entries of dist that are a directory or a file.
DistEntries(t) ==
    {path \in DOMAIN t :
        Parent(path) = "dist" /\ t[path] /\ (is_dir(path) \/ is_file(path))}

\* ops.rs 272-316.  `stuck` are the paths whose removal fails.
clean_project ==
    \E include_pycache \in BOOLEAN, include_compiled_bytecode \in BOOLEAN,
       stuck \in {{}} \cup {{path} : path \in CleanPaths \ {"dist"}},
       fail \in {"none", "read_dir"} :
        LET arguments == [include_pycache |-> include_pycache,
                          include_compiled_bytecode |-> include_compiled_bytecode,
                          stuck |-> stuck]
            t1 == IF tree["dist"] THEN RemovedAll(tree, DistEntries(tree), stuck)
                  ELSE tree
            t2 == IF include_pycache THEN RemovedAll(t1, PycachePaths, stuck)
                  ELSE t1
            t3 == IF include_compiled_bytecode THEN RemovedAll(t2, PycPaths, stuck)
                  ELSE t2
            done(res, t) ==
                /\ op' = "clean"
                /\ args' = arguments
                /\ result' = res
                /\ before' = file
                /\ envBefore' = venv
                /\ live' = file
                /\ writes' = 0
                /\ calls' = <<>>
                /\ lookup' = NoLookup
                /\ ran' = ran + 1
                /\ tree' = t
                /\ treeBefore' = tree
                /\ KeepEnviron
                /\ UNCHANGED <<file, venv>>
        IN
        IF fail = "read_dir" THEN tree["dist"] /\ done("read_dir", tree)
        ELSE done("Ok", t3)

\* A path is there only if the directory it is in is there.
CleanTrees ==
    {t \in [CleanPaths -> BOOLEAN] :
        \A path \in CleanPaths :
            (t[path] /\ Parent(path) # ".") => t[Parent(path)]}

InitClean ==
    /\ tree \in CleanTrees
    /\ file = Document(<<>>, NoGroups)
    /\ venv = NoEnv
    /\ op = "none"
    /\ args = <<>>
    /\ result = "Ok"
    /\ before = file
    /\ envBefore = venv
    /\ live = file
    /\ writes = 0
    /\ calls = <<>>
    /\ lookup = NoLookup
    /\ ran = 0
    /\ treeBefore = tree
    /\ environ = NoEnviron
    /\ environBefore = NoEnviron

NextClean ==
    \/ op = "none" /\ ran < MaxCommands /\ clean_project
    \/ Continue

SpecClean == InitClean /\ [][NextClean]_vars

---------------------------------------------------------------------------
(* Properties of the commands *)

Mutating == {"add", "add_optional", "remove", "update"}

Reconciling ==
    Mutating \cup {"build", "format", "lint", "publish", "test"}

\* The dependencies a command was asked for, parsed.
Requested == dependency_iter(args.dependencies)

\* The list an add targets, in document m.
TargetList(m, target) ==
    IF target = <<>> THEN m.dependencies
    ELSE IF target[1] \in DOMAIN m.optional THEN m.optional[target[1]]
    ELSE <<>>

Entries(list, n) == {i \in 1..Len(list) : list[i].name = n}

InstalledIn(v, n) == v.exists /\ v.installed[n] # 0

AllInstalled(m, v) == \A n \in DeclaredNames(m) : InstalledIn(v, n)

SomeRunFailed == \E i \in 1..Len(calls) : ~calls[i].ok

\* C1: when the installer run of add, add-optional or update fails, the
\* command returns that error and the metadata file is not written: the
\* file is what it was when the command started.
C1_FailedInstallNotPersisted ==
    (op \in {"add", "add_optional", "update"} /\ SomeRunFailed)
        => (result = "installer" /\ writes = 0 /\ file = before)

C1_Witness ==
    /\ op = "update"
    /\ SomeRunFailed
    /\ venv # envBefore
    /\ DeclaredNames(file) # {}

\* C2: if every package the file declared was installed when a command
\* (add, add-optional, remove, update, install) started, every package the
\* file declares is installed when it returns, whether it succeeds or fails
\* at any step.
C2_DeclaredStaysInstalled ==
    AllInstalled(before, envBefore) => AllInstalled(file, venv)

C2_Witness ==
    /\ op = "remove"
    /\ result = "installer"
    /\ AllInstalled(before, envBefore)
    /\ DeclaredNames(file) # {}
    /\ venv # envBefore

\* C3: every mutating command (add, add-optional, remove, update) writes
\* the file only after all its other fallible steps have succeeded, so a
\* command that returns an error has left the file as it was loaded.
C3_ErrorLeavesFile ==
    op \in Mutating =>
        /\ writes > 0 => result \in {"Ok", "write"}
        /\ result # "Ok" => file = before

\* C4: a command that reconciles metadata calls write_file if and only if
\* its document differs from the one it loaded; when it has not changed
\* the document the file is as it was.
C4_WriteIffChanged ==
    op \in Reconciling =>
        /\ writes > 0 <=> live # before
        /\ live = before => file = before

C4_Witness ==
    /\ op \in {"build", "format", "lint", "publish", "test"}
    /\ result = "Ok"
    /\ calls # <<>>
    /\ writes = 0

\* The requests an add handed to its install call.
WasInstalled(d) ==
    \E i \in 1..Len(calls) :
        calls[i].kind = "install" /\ calls[i].ok /\ d \in Range(calls[i].pkgs)

C6_AddTwice ==
    (ran = 2 /\ result = "Ok") =>
        /\ calls = <<>>
        /\ lookup = NoLookup
        /\ writes = 0
        /\ file = before
        /\ venv = envBefore
        /\ \A i \in 1..Len(Requested) :
              Cardinality(Entries(TargetList(file, args.group),
                                  Requested[i].name)) = 1

C6_Witness ==
    /\ ran = 2
    /\ result = "Ok"
    /\ args.dependencies = <<(<<"ruff">>)>>
    /\ args.group = <<>>
    /\ file.dependencies =
          <<[name |-> "ruff", version_or_url |-> <<"==", MaxVersion>>]>>

NoneDeclared == \A i \in 1..Len(Requested) : Requested[i].name \notin DeclaredNames(before)

\* C7: a remove of requirements none of which the loaded file declares, in
\* the required list or a group, returns Ok without writing the file,
\* without looking for the environment and without an uninstall, also when
\* the environment holds a package of that name.
C7_RemoveUndeclared ==
    (op = "remove" /\ result # "load" /\ NoneDeclared) =>
        /\ result = "Ok"
        /\ writes = 0
        /\ file = before
        /\ lookup = NoLookup
        /\ calls = <<>>
        /\ venv = envBefore

C7_Witness ==
    /\ op = "remove"
    /\ result = "Ok"
    /\ NoneDeclared
    /\ \E i \in 1..Len(Requested) : InstalledIn(venv, Requested[i].name)

\* The names a remove was asked for that the loaded file declared.
Gone == {Requested[i].name : i \in 1..Len(Requested)} \cap DeclaredNames(before)

\* C8: after a successful remove of declared dependencies, the file holds
\* no requirement of their names, in the required list or in any group,
\* and if there is an environment they were uninstalled from it by one
\* run of the installer over exactly the declared dependencies asked for.
C8_RemoveCascades ==
    (op = "remove" /\ result = "Ok" /\ Gone # {}) =>
        /\ Gone \cap DeclaredNames(file) = {}
        /\ envBefore.exists =>
              /\ \A n \in Gone : venv.installed[n] = 0
              /\ Len(calls) = 1
              /\ calls[1].kind = "uninstall"
              /\ NamesOf(calls[1].pkgs) = Gone
              /\ Range(calls[1].pkgs) \subseteq Range(Requested)

C8_Witness ==
    /\ op = "remove"
    /\ result = "Ok"
    /\ \E n \in Gone :
          /\ n \in NamesOf(before.dependencies)
          /\ \E g \in DOMAIN before.optional : n \in NamesOf(before.optional[g])
          /\ InstalledIn(envBefore, n)
          /\ ~InstalledIn(venv, n)

\* C9: a remove of a declared dependency that finds no environment returns
\* Ok, with the dependency gone from the file and still no environment;
\* another error of the environment lookup is returned to the caller.
C9_RemoveWithoutEnvironment ==
    op = "remove" =>
        /\ lookup = <<"current", "PythonEnvironmentNotFound">> =>
              /\ result = "Ok"
              /\ Gone # {}
              /\ Gone \cap DeclaredNames(file) = {}
              /\ ~venv.exists
              /\ calls = <<>>
        /\ lookup = <<"current", "Err">> => result = "lookup"

C9_Witness ==
    /\ op = "remove"
    /\ lookup = <<"current", "PythonEnvironmentNotFound">>
    /\ result = "Ok"
    /\ file # before
    /\ ~venv.exists

\* The requests of an add that pin a version of a package the loaded file
\* declared nowhere.
NewPins ==
    {i \in 1..Len(Requested) :
        /\ Requested[i].version_or_url # None
        /\ Requested[i].name \notin DeclaredNames(before)}

AddedOne ==
    /\ op \in {"add", "add_optional"}
    /\ result = "Ok"
    /\ Len(Requested) = 1
    /\ Requested[1].version_or_url = None

\* C11 as claimed: after a successful add (add-optional into g) of [d], d
\* without a version, the environment contains module d and the file
\* answers contains_dependency(d) (contains_optional_dependency(d, g)) with
\* true.
C11_AddedThenPresent ==
    AddedOne =>
        /\ InstalledIn(venv, Requested[1].name)
        /\ ContainsIn(file, Requested[1], args.group)

\* C11, amended: after a successful add (add-optional into g) of [d], d
\* without a version, the file answers contains_dependency(d)
\* (contains_optional_dependency(d, g)) with true, and the environment
\* contains module d if the target list did not declare d before the call
\* or the environment already had it: a d the list declares is skipped
\* and the environment is left as it is.
C11_AddedThenDeclared ==
    AddedOne =>
        /\ ContainsIn(file, Requested[1], args.group)
        /\ (~ContainsIn(before, Requested[1], args.group)
              \/ InstalledIn(envBefore, Requested[1].name))
                => InstalledIn(venv, Requested[1].name)
        /\ ContainsIn(before, Requested[1], args.group)
                => venv = envBefore /\ file = before

C11_Witness ==
    /\ AddedOne
    /\ op = "add_optional"
    /\ ~ContainsIn(before, Requested[1], args.group)
    /\ ~InstalledIn(envBefore, Requested[1].name)
    /\ InstalledIn(venv, Requested[1].name)
    /\ ContainsIn(file, Requested[1], args.group)

\* C12: from an empty required list and an empty dev group, after a
\* successful add_project_optional_dependencies(["pytest"], "dev") the
\* required list and every other group are unchanged, dev holds exactly one
\* requirement, a pinned pytest, and the environment contains pytest;
\* after a following successful remove_project_dependencies(["pytest"])
\* the dev group is empty and the environment no longer contains pytest.
C12_AddThenRemovePytest ==
    /\ (ran = 1 /\ result = "Ok") =>
          /\ file.dependencies = <<>>
          /\ DOMAIN file.optional = DOMAIN before.optional
          /\ \A g \in DOMAIN file.optional \ {"dev"} :
                file.optional[g] = before.optional[g]
          /\ InstalledIn(venv, "pytest")
          /\ file.optional["dev"] = <<Pinned("pytest", venv.installed["pytest"])>>
    /\ (ran = 2 /\ result = "Ok") =>
          /\ file.optional["dev"] = <<>>
          /\ ~InstalledIn(venv, "pytest")
          /\ file.dependencies = <<>>

C12_Witness ==
    /\ ran = 2
    /\ op = "remove"
    /\ result = "Ok"
    /\ before.optional["dev"] = <<Pinned("pytest", MaxVersion)>>
    /\ InstalledIn(envBefore, "pytest")
    /\ ~InstalledIn(venv, "pytest")
    /\ file.optional["dev"] = <<>>

\* No two requirements of a list share a name.
UniqueNames(list) ==
    \A i, j \in 1..Len(list) : list[i].name = list[j].name => i = j

Unique(m) ==
    /\ UniqueNames(m.dependencies)
    /\ \A g \in DOMAIN m.optional : UniqueNames(m.optional[g])

\* C13: if no two requirements of the required list and no two of any one
\* group share a normalized name when a command (add, add-optional,
\* remove, update) starts, none do in the file it leaves, whether it
\* succeeds or fails; so uniqueness survives every sequence of commands.
C13_NamesStayUnique ==
    Unique(before) => Unique(file)

C13_Witness ==
    /\ op = "add"
    /\ result = "Ok"
    /\ Unique(before)
    /\ file # before
    /\ Len(Requested) = 2
    /\ Requested[1].name = Requested[2].name
    /\ Requested[1].version_or_url = None
    /\ Requested[2].version_or_url # None

\* The requirements of a list that have name n.
Forms(list, n) == {list[j] : j \in Entries(list, n)}

\* The requests of an add whose name the target list already declared.
Duplicates ==
    {i \in 1..Len(Requested) : ContainsIn(before, Requested[i], args.group)}

\* C14: on add (add-optional), a request whose normalized name the target
\* list already declares, under any constraint, is skipped: no installer
\* run is given a package of that name, and the target list keeps the
\* requirement it had under that name, whether the command succeeds or not.
C14_DuplicateSkipped ==
    op \in {"add", "add_optional"} =>
        \A i \in Duplicates :
            /\ \A c \in 1..Len(calls) :
                  Requested[i].name \notin NamesOf(calls[c].pkgs)
            /\ Forms(TargetList(file, args.group), Requested[i].name)
                 = Forms(TargetList(before, args.group), Requested[i].name)
            /\ Duplicates = 1..Len(Requested) =>
                  file = before /\ venv = envBefore /\ calls = <<>>

C14_Witness ==
    /\ op = "add"
    /\ result = "Ok"
    /\ calls # <<>>
    /\ file # before
    /\ \E i \in Duplicates :
          /\ Requested[i].version_or_url = <<"==", MaxVersion>>
          /\ Forms(before.dependencies, Requested[i].name)
                = {AtLeast(Requested[i].name, 1)}

\* The requests of an add that give a constraint and whose name the target
\* list did not declare.
NewConstrained ==
    {i \in 1..Len(Requested) :
        Requested[i].version_or_url # None /\ i \notin Duplicates}

\* The requests of the batch that name the package of request i.
SameName(i) == {j \in 1..Len(Requested) : Requested[j].name = Requested[i].name}

\* C15 as claimed: after a successful add, the target list holds every
\* newly added requirement that gave a version constraint as the user
\* supplied it.
C15_ConstraintVerbatim ==
    (op \in {"add", "add_optional"} /\ result = "Ok") =>
        \A i \in NewConstrained :
            Requested[i] \in Range(TargetList(file, args.group))

\* C15, amended: after a successful add, the target list holds a newly
\* added requirement that gave a version constraint as the user supplied
\* it, and no other of that name, provided the batch has no other request
\* of the same normalized name.  Of several new requests of one name the
\* list keeps one requirement only: the pin of the installed version when
\* one of them gave no version, else the first of them.
C15_ConstraintVerbatimOnce ==
    (op \in {"add", "add_optional"} /\ result = "Ok") =>
        \A i \in NewConstrained :
            LET list == TargetList(file, args.group)
                n == Requested[i].name
                first == CHOOSE j \in SameName(i) : \A k \in SameName(i) : j <= k
            IN  /\ SameName(i) = {i} => Forms(list, n) = {Requested[i]}
                /\ (\E j \in SameName(i) : Requested[j].version_or_url = None)
                      => Forms(list, n) = {Pinned(n, venv.installed[n])}
                /\ (\A j \in SameName(i) : Requested[j].version_or_url # None)
                      => Forms(list, n) = {Requested[first]}

C15_Witness ==
    /\ op = "add_optional"
    /\ result = "Ok"
    /\ \E i \in NewConstrained :
          /\ SameName(i) = {i}
          /\ Requested[i].version_or_url = <<">=", 1>>
          /\ venv.installed[Requested[i].name] = MaxVersion
          /\ Requested[i] \in Range(file.optional[args.group[1]])

\* The names an update handed to update_packages.
UpdateSet == UNION {NamesOf(calls[c].pkgs) : c \in 1..Len(calls)}

\* The lists of a document: the required list and the groups.
ListsOf(m) == {<<>>} \cup {<<g>> : g \in DOMAIN m.optional}

\* C16: a successful update replaces a declared entry by the pin of the
\* installed version only if the entry is in the update set and has no
\* version constraint; a declared requirement with a constraint, and one
\* that is not in the update set, is in the file verbatim afterwards.
C16_UpdateKeepsConstraints ==
    (op = "update" /\ result = "Ok") =>
        \A t \in ListsOf(before) :
            \A e \in Range(TargetList(before, t)) :
                (e.version_or_url # None \/ e.name \notin UpdateSet)
                    => e \in Range(TargetList(file, t))

\* An update with an explicit list none of whose entries the loaded file
\* declares, in the required list or a group.
UpdateOfUndeclared ==
    /\ op = "update"
    /\ args.dependencies # None
    /\ \A d \in Range(dependency_iter(args.dependencies[1])) :
          d.name \notin DeclaredNames(before)

\* C17: an update with an explicit list none of whose entries is declared
\* returns Ok with no environment change and no file change: it creates no
\* environment, runs no installer and does not write the file.
C17_UpdateOfUndeclaredIsNoOp ==
    (UpdateOfUndeclared /\ result = "Ok") =>
        /\ venv = envBefore
        /\ file = before
        /\ calls = <<>>
        /\ writes = 0

\* C18: no command (add, add-optional, install, remove, update, build,
\* format, lint, publish, test) runs the environment's installer more than
\* once: what it installs, uninstalls or updates goes into one batch.
C18_OneInstallerRun ==
    op # "none" => Len(calls) <= 1

\* C19: an update with no explicit list hands update_packages one batch
\* that holds every requirement the file declares, in the required list
\* and in every group, with no two entries of one normalized name.
C19_UpdateAllDeduplicated ==
    (op = "update" /\ args.dependencies = None /\ calls # <<>>) =>
        /\ NamesOf(calls[1].pkgs) = DeclaredNames(before)
        /\ UniqueNames(calls[1].pkgs)

\* An install asked for groups none of which the file has, "required" not
\* among them.
InstallOfMissingGroups ==
    /\ op = "install"
    /\ args.groups # None
    /\ "required" \notin Range(args.groups[1])
    /\ \A g \in Range(args.groups[1]) : g \notin DOMAIN before.optional

\* C20: an install asked for group names none of which is a group of the
\* file, "required" not among them, finds nothing to install and returns
\* Ok: no environment is resolved or created and the installer is not run.
C20_MissingGroupsInstallNothing ==
    (InstallOfMissingGroups /\ result # "load") =>
        /\ result = "Ok"
        /\ lookup = NoLookup
        /\ calls = <<>>
        /\ venv = envBefore
        /\ file = before
        /\ writes = 0

C20_Witness ==
    /\ InstallOfMissingGroups
    /\ result = "Ok"
    /\ before.dependencies # <<>>
    /\ ~venv.exists
    /\ Len(args.groups[1]) = MaxBatch

\* An install asked for groups, "required" among them, of a file that has
\* no optional group named "required".
InstallOfRequired ==
    /\ op = "install"
    /\ args.groups # None
    /\ "required" \in Range(args.groups[1])
    /\ "required" \notin DOMAIN before.optional

\* C21: when the requested groups contain "required" and the file has no
\* optional group named "required", install hands the installer exactly the
\* required list and nothing else: one run over that list, whatever other
\* groups were named, and no run at all when the list is empty.
C21_RequiredInstallsRequiredList ==
    (InstallOfRequired /\ result \notin {"load", "resolve"}) =>
        /\ before.dependencies = <<>> => calls = <<>> /\ result = "Ok"
        /\ before.dependencies # <<>> =>
              /\ Len(calls) = 1
              /\ calls[1].kind = "install"
              /\ calls[1].pkgs = before.dependencies

C21_Witness ==
    /\ InstallOfRequired
    /\ result = "Ok"
    /\ "dev" \in Range(args.groups[1])
    /\ "dev" \in DOMAIN before.optional
    /\ NamesOf(before.optional["dev"]) \ NamesOf(before.dependencies) # {}
    /\ calls # <<>>
    /\ venv # envBefore

\* An install asked for groups, "required" among them, of a file that has
\* an optional group of its own named "required".
InstallOfOwnRequired ==
    /\ op = "install"
    /\ args.groups # None
    /\ "required" \in Range(args.groups[1])
    /\ "required" \in DOMAIN before.optional

DeclaredIn(m) ==
    Range(m.dependencies) \cup UNION {Range(m.optional[g]) : g \in DOMAIN m.optional}

\* The environment has the package of a requirement, at the version the
\* requirement pins if it pins one.
Satisfied(v, d) ==
    /\ InstalledIn(v, d.name)
    /\ (d.version_or_url # None /\ d.version_or_url[1] = "==")
          => v.installed[d.name] = d.version_or_url[2]

\* C23: an install called with no groups hands the installer every
\* requirement of the required list and of every optional group of the
\* file, and after it succeeds each of them is present in the environment.
C23_InstallAllInstallsEverything ==
    (op = "install" /\ args.groups = None /\ result \notin {"load", "resolve"}) =>
        /\ DeclaredIn(before) # {} =>
              /\ Len(calls) = 1
              /\ DeclaredIn(before) \subseteq Range(calls[1].pkgs)
        /\ result = "Ok" => \A d \in DeclaredIn(before) : Satisfied(venv, d)

Scaffolding == {"init_lib", "init_app", "new_lib", "new_app"}

\* C24: init_lib_project, init_app_project, new_lib_project and
\* new_app_project never overwrite a metadata file: when one exists for the
\* workspace, whatever its content, the command returns an error and the
\* file and the rest of the project tree are as they were.
C24_NoOverwrite ==
    (op \in Scaffolding /\ before # NoFile) =>
        /\ result # "Ok"
        /\ file = before
        /\ tree = treeBefore
        /\ writes = 0

\* C25: after a successful use_python(v) the project has exactly one
\* environment, made by a discovered interpreter whose version string is
\* v: an environment that existed before was removed, and only then was
\* the new one created, by one run of that interpreter.
C25_UsePythonRecreates ==
    (op = "use_python" /\ result = "Ok") =>
        LET create == calls[Len(calls)]
        IN  /\ venv.exists
            /\ venv.python = args.version
            /\ venv.root = ".venv"
            /\ venv.installed = EmptyEnv
            /\ create.kind = "spawn"
            /\ create.ok
            /\ create.argv = <<"-m", "venv", ".venv">>
            /\ \E i \in 1..Len(args.interpreters) :
                  /\ args.interpreters[i].version = args.version
                  /\ args.interpreters[i].path = create.program
            /\ envBefore.exists =>
                  calls = <<RemoveDir(envBefore.root, TRUE), create>>
            /\ ~envBefore.exists => calls = <<create>>

C25_Witness ==
    /\ op = "use_python"
    /\ result = "Ok"
    /\ envBefore.exists
    /\ envBefore.root = "venv"
    /\ envBefore.python # args.version
    /\ envBefore.installed # EmptyEnv
    /\ Len(args.interpreters) = 2
    /\ args.interpreters[1].version # args.version
    /\ venv.python = args.version

\* C26: run_command_str, activate_python_environment and remove need the
\* current environment and never create one: a project without an
\* environment has none afterwards, and run_command_str and
\* activate_python_environment then fail with PythonEnvironmentNotFound
\* and spawn no process.
C26_NoEnvironmentIsNotCreated ==
    (op \in {"run", "activate", "remove"} /\ ~envBefore.exists) =>
        /\ ~venv.exists
        /\ venv = envBefore
        /\ \A c \in 1..Len(calls) : calls[c].kind # "spawn"
        /\ op \in {"run", "activate"} =>
              /\ result = "PythonEnvironmentNotFound"
              /\ lookup = <<"current", "PythonEnvironmentNotFound">>
              /\ calls = <<>>
              /\ environ = environBefore

C26_Witness ==
    /\ op = "run"
    /\ args.command = "pip install black"
    /\ ~envBefore.exists
    /\ result = "PythonEnvironmentNotFound"
    /\ calls = <<>>
    /\ ~venv.exists
    /\ ran = MaxCommands

\* C27: make_venv_command sets, on the spawned command only, PATH to the
\* search-path entries of the host with the executables directory of the
\* environment as the first entry, and VIRTUAL_ENV to the root of the
\* environment; the variables of the parent process are as they were.
C27_VenvCommandVariables ==
    (op = "run" /\ calls # <<>>) =>
        LET cmd == calls[1]
        IN  /\ Len(calls) = 1
            /\ cmd.kind = "spawn"
            /\ DOMAIN cmd.env = {"PATH", "VIRTUAL_ENV"}
            /\ cmd.env.PATH[1] = executables_dir_path(envBefore)
            /\ Tail(cmd.env.PATH) = environBefore.PATH
            /\ cmd.env.VIRTUAL_ENV = envBefore.root
            /\ environ = environBefore
            /\ (result = "Ok" /\ args.command = "pip install black")
                  => InstalledIn(venv, "black")

C27_Witness ==
    /\ op = "run"
    /\ result = "Ok"
    /\ args.command = "pip install black"
    /\ environBefore = [PATH |-> <<"/usr/bin", "/bin">>, VIRTUAL_ENV |-> ""]
    /\ environ = environBefore
    /\ envBefore.root = "venv"
    /\ calls[1].env.PATH = <<"venv/bin", "/usr/bin", "/bin">>
    /\ calls[1].env.VIRTUAL_ENV = "venv"
    /\ ~InstalledIn(envBefore, "black")
    /\ InstalledIn(venv, "black")

\* The requirement strings a command was given.
GivenStrings ==
    IF op = "update" THEN (IF args.dependencies = None THEN <<>>
                           ELSE args.dependencies[1])
    ELSE args.dependencies

\* C28: a requirement string that does not parse, in the input of add,
\* add-optional, remove or update, makes the whole command fail before any
\* environment operation or metadata edit: no other requirement of the
\* batch is installed, removed or persisted.
C28_MalformedAbortsBatch ==
    (/\ op \in Mutating
     /\ result # "load"
     /\ \E i \in 1..Len(GivenStrings) : ~Parses(GivenStrings[i])) =>
        /\ result # "Ok"
        /\ calls = <<>>
        /\ writes = 0
        /\ file = before
        /\ venv = envBefore

\* C29: after clean_project with include_pycache and
\* include_compiled_bytecode both true, dist has no entries and there is
\* no __pycache__ directory and no .pyc file under the workspace root;
\* with a flag false the __pycache__ directories, or the .pyc files, are
\* left as they were; and no path outside dist that is neither a
\* __pycache__ directory nor a .pyc file is ever removed.
C29_CleanRemovesExactly ==
    (op = "clean" /\ result = "Ok") =>
        /\ (args.include_pycache /\ args.include_compiled_bytecode) =>
              \A path \in CleanPaths :
                  (Parent(path) = "dist" \/ path \in PycachePaths \cup PycPaths)
                      => ~tree[path]
        /\ ~args.include_pycache =>
              \A path \in PycachePaths : tree[path] = treeBefore[path]
        /\ ~args.include_compiled_bytecode =>
              \A path \in PycPaths : tree[path] = treeBefore[path]
        /\ \A path \in CleanPaths :
              (Parent(path) # "dist" /\ path \notin PycachePaths \cup PycPaths)
                  => tree[path] = treeBefore[path]

\* The commands that use helper tools, and the tools of the last one.
ToolOps == {"build", "format", "lint", "publish", "test"}

ToolsOfCommand ==
    IF op = "lint" THEN (IF args.include_types THEN {"ruff", "mypy"} ELSE {"ruff"})
    ELSE Range(args.tools)

\* The entries of package n in group g of document m.
FormsIn(m, g, n) ==
    IF g \in DOMAIN m.optional
    THEN SelectSeq(m.optional[g], LAMBDA d : d.name = n)
    ELSE <<>>

\* Documents a and b have the same entries of package n in every list.
SameForms(a, b, n) ==
    /\ SelectSeq(a.dependencies, LAMBDA d : d.name = n)
          = SelectSeq(b.dependencies, LAMBDA d : d.name = n)
    /\ \A g \in DOMAIN a.optional \cup DOMAIN b.optional :
          FormsIn(a, g, n) = FormsIn(b, g, n)

DevOf(m) == IF "dev" \in DOMAIN m.optional THEN m.optional["dev"] ELSE <<>>

\* C30: in build_project, format_project, lint_project, publish_project
\* and test_project a helper tool is passed to the installer only if the
\* environment does not already contain its module; an entry for it is
\* added to the "dev" group only if no list of the document declares any
\* form of it, and the entry is pinned; a tool that is declared anywhere
\* keeps its entries, and if every tool is declared the document is not
\* modified.
C30_ToolsInstalledAndDeclaredIfMissing ==
    op \in ToolOps =>
        /\ \A i \in 1..Len(calls) :
              /\ calls[i].kind = "install"
              /\ \A p \in Range(calls[i].pkgs) :
                    /\ p.name \in ToolsOfCommand
                    /\ ~contains_module(envBefore.installed, p.name)
        /\ \A t \in ToolsOfCommand :
              /\ contains_dependency_any(before, FromStr(<<t>>))
                    => SameForms(file, before, t)
              /\ \A i \in Entries(DevOf(file), t) :
                    Entries(DevOf(before), t) = {}
                        => /\ ~contains_dependency_any(before, FromStr(<<t>>))
                           /\ DevOf(file)[i].version_or_url # None
                           /\ DevOf(file)[i].version_or_url[1] = "=="
        /\ (\A t \in ToolsOfCommand :
                contains_dependency_any(before, FromStr(<<t>>)))
              => (file = before /\ writes = 0)
        /\ \A n \in DeclaredNames(before) \cup DeclaredNames(file) :
              n \notin ToolsOfCommand => SameForms(file, before, n)

\* format_project where ruff is installed and declared and black is
\* neither: only black is installed, and only black is pinned in "dev".
C30_Witness ==
    /\ op = "format"
    /\ result = "Ok"
    /\ contains_module(envBefore.installed, "ruff")
    /\ ~contains_module(envBefore.installed, "black")
    /\ contains_dependency_any(before, FromStr(<<"ruff">>))
    /\ ~contains_dependency_any(before, FromStr(<<"black">>))
    /\ Len(calls) = 1
    /\ NamesOf(calls[1].pkgs) = {"black"}
    /\ SameForms(file, before, "ruff")
    /\ Entries(DevOf(file), "black") # {}
    /\ writes = 1

\* No discovered interpreter has the version use_python was asked for.
NoSuchInterpreter ==
    \A i \in 1..Len(args.interpreters) :
        args.interpreters[i].version # args.version

\* C31: use_python with a version that no discovered interpreter has
\* returns PythonNotFound, and the environment is as it was: nothing is
\* removed and nothing is spawned, since the interpreter is looked up
\* before the current environment is removed.
C31_UnknownVersionTouchesNothing ==
    (op = "use_python" /\ NoSuchInterpreter) =>
        /\ result = "PythonNotFound"
        /\ calls = <<>>
        /\ venv = envBefore
        /\ lookup = NoLookup

C31_Witness ==
    /\ op = "use_python"
    /\ NoSuchInterpreter
    /\ args.interpreters # <<>>
    /\ result = "PythonNotFound"
    /\ envBefore.exists
    /\ envBefore.installed # EmptyEnv
    /\ venv = envBefore

\* C32 as stated: whenever use_python returns an error, the environment
\* that existed before the call is still there.
C32_FailedSwitchKeepsEnvironment ==
    (op = "use_python" /\ result # "Ok" /\ envBefore.exists) =>
        /\ venv.exists
        /\ venv = envBefore

\* C32, amended: an error of use_python that comes before the removal of
\* the current environment (no interpreter of that version, or the
\* lookup of the current environment failed) leaves the environment as
\* it was; the removal is the first thing done to it.
C32_EarlyFailureKeepsEnvironment ==
    (op = "use_python" /\ result # "Ok") =>
        /\ result \in {"PythonNotFound", "lookup"} => calls = <<>>
        /\ (\A i \in 1..Len(calls) : calls[i].kind # "remove_dir_all")
              => venv = envBefore
        /\ (envBefore.exists /\ calls # <<>>)
              => (calls[1].kind = "remove_dir_all" /\ calls[1].root = envBefore.root)

C32_Witness ==
    /\ op = "use_python"
    /\ result = "lookup"
    /\ ~NoSuchInterpreter
    /\ calls = <<>>
    /\ envBefore.exists
    /\ envBefore.installed # EmptyEnv
    /\ venv = envBefore

\* Documents a and b declare the same names in the required list and in
\* each group, and have the same groups.
SameNames(a, b) ==
    /\ NamesOf(a.dependencies) = NamesOf(b.dependencies)
    /\ DOMAIN a.optional = DOMAIN b.optional
    /\ \A g \in DOMAIN a.optional :
          NamesOf(a.optional[g]) = NamesOf(b.optional[g])

\* C33: update_project_dependencies changes version constraints only:
\* after any update call the persisted document, and the document the
\* command holds, declare the same normalized names as before in the
\* required list and in each optional group, so no name appears, goes
\* away or moves between lists.
C33_UpdateKeepsNames ==
    op = "update" =>
        /\ SameNames(file, before)
        /\ SameNames(live, before)

\* An update that re-pinned a requirement of the required list and one
\* of a group.
C33_Witness ==
    /\ op = "update"
    /\ result = "Ok"
    /\ writes = 1
    /\ file.dependencies # before.dependencies
    /\ \E g \in DOMAIN before.optional :
          /\ before.optional[g] # <<>>
          /\ file.optional[g] # before.optional[g]
    /\ SameNames(file, before)

\* Every requirement of document m is pinned to the version environment
\* v has of its package.
AllPinnedAsInstalled(m, v) ==
    \A d \in Range(m.dependencies)
           \cup UNION {Range(m.optional[g]) : g \in DOMAIN m.optional} :
        /\ d.version_or_url # None
        /\ d.version_or_url[1] = "=="
        /\ d.version_or_url[2] = v.installed[d.name]

\* C34: an update that finds every declared requirement pinned to
\* exactly the version the environment has after the update leaves the
\* document equal to the one it loaded, the order of the entries of each
\* list included, and writes nothing.
C34_UpdateOfPinnedIsNoWrite ==
    (/\ op = "update"
     /\ result = "Ok"
     /\ AllPinnedAsInstalled(before, venv)) =>
        /\ live = before
        /\ file = before
        /\ writes = 0

\* C35: install_project_dependencies never modifies the metadata
\* document: for every group selection and every outcome of the
\* installer, the file after the call is the file before it, and nothing
\* is written.
C35_InstallKeepsDocument ==
    op = "install" =>
        /\ file = before
        /\ live = before
        /\ writes = 0

\* An install that put a package into the environment whose requirement
\* has no version: the requirement is not pinned in the file.
C35_Witness ==
    /\ op = "install"
    /\ result = "Ok"
    /\ calls # <<>>
    /\ \E d \in Range(calls[1].pkgs) :
          /\ d.version_or_url = None
          /\ envBefore.installed[d.name] = 0
          /\ venv.installed[d.name] # 0
          /\ d \in Range(file.dependencies)
    /\ file = before

\* The requirements the last command handed to the installer.
HandedOver == IF calls = <<>> THEN {} ELSE Range(calls[1].pkgs)

NewTools ==
    {t \in ToolsOfCommand :
        /\ envBefore.installed[t] = 0
        /\ venv.installed[t] # 0
        /\ ~contains_dependency_any(before, FromStr(<<t>>))}

\* C37: in build, format, lint, publish and test a helper tool that the
\* command installed and that was not declared is in the "dev" group of
\* the file, pinned as installed, whether the run of the tool itself
\* succeeded or failed: the file is written before the tool is run.
C37_ToolRecordedBeforeRun ==
    (op \in ToolOps /\ result \in {"Ok", "run", "run2"}) =>
        \A t \in NewTools :
            [name |-> t, version_or_url |-> <<"==", venv.installed[t]>>]
                \in Range(DevOf(file))

====
